---- MODULE Spec2Model ----
(***************************************************************************)
(* ForgeKit: the function registry (src/src/metadata.rs) and the parser    *)
(* (src/src/parser.rs).                                                    *)
(*                                                                         *)
(* Strings are sequences of characters; a character is a one-token string. *)
(* Option<T> is a sequence of length at most one: None == <<>>,            *)
(* Some(x) == <<x>>.                                                       *)
(***************************************************************************)
EXTENDS Integers, Sequences, FiniteSets, TLC

VARIABLES
    trie,       \* MetadataManager.trie : RwLock<FunctionTrie>
    enums,      \* MetadataManager.enums : DashMap<String, Vec<String>>
    events,     \* MetadataManager.events : DashMap<String, Event>
    exported,   \* the last MetadataCache returned by export_cache, with the trie it was taken from
    last,       \* the last manager call: its name, input, result and the registry before it
    nrec,       \* number of function records handed to the manager so far
    ncalls,     \* number of manager calls so far
    lock,       \* the RwLock around the trie: its writer and its readers
    pc,         \* where each thread is in its call
    wcall,      \* per writer thread: the call it makes, once made
    wrem,       \* per writer thread: the insert calls its batch has still to make
    robs,       \* per reader thread: the lookup it is making and what it saw
    committed,  \* the trie as the last completed batch left it
    wlog,       \* the writer thread of each trie.insert made, in order
    source,     \* the text handed to the parser, as UTF-8 bytes
    config,     \* the parser's ValidationConfig
    outcome,    \* what parse returned, once it has: the AST and the diagnostics
    run         \* a parse followed loop iteration by loop iteration: the parser and the body so far

vars == <<trie, enums, events, exported, last, nrec, ncalls,
          lock, pc, wcall, wrem, robs, committed, wlog,
          source, config, outcome, run>>

\* the variables of threads sharing one manager
concvars == <<lock, pc, wcall, wrem, robs, committed, wlog>>

\* the variables of a parse
parsevars == <<source, config, outcome, run>>

----------------------------------------------------------------------------
(* Bounds *)

MaxBatch == 2       \* longest batch / cache function list
MaxRecords == 2     \* records handed to the manager in one run
MaxCalls == 3       \* manager calls in one run
MaxQueryLen == 3    \* longest lookup string
MaxInserts == 3     \* FunctionTrie::insert calls on one trie
MaxContentLen == 5  \* characters between the backticks of a block
MaxEscapeLen == 5   \* escape tokens between the backticks of a block
MaxCallLen == 4     \* tokens between the backticks of a validated block
MaxStepLen == 4     \* tokens of a source whose parse is followed step by step

----------------------------------------------------------------------------
(* Option and sequence helpers *)

None == <<>>
Some(x) == <<x>>

RECURSIVE SeqsUpTo(_, _)
SeqsUpTo(S, n) ==
    IF n = 0 THEN {<<>>}
    ELSE LET shorter == SeqsUpTo(S, n - 1)
         IN shorter \cup {Append(s, x) : s \in {t \in shorter : Len(t) = n - 1}, x \in S}

IsPrefixOf(p, s) == Len(p) <= Len(s) /\ SubSeq(s, 1, Len(p)) = p

Range(s) == {s[i] : i \in 1..Len(s)}

----------------------------------------------------------------------------
(* Characters and case mapping (std: str::to_lowercase, str::to_uppercase) *)
(* "sz" stands for U+00DF (sharp s): its lowercase is itself, its          *)
(* uppercase is the two characters "SS".                                   *)

Chars == {"$", "s", "S", "sz"}

char_to_lowercase(c) == IF c = "S" THEN "s" ELSE c

char_to_uppercase(c) ==
    IF c = "s" THEN <<"S">>
    ELSE IF c = "sz" THEN <<"S", "S">>
    ELSE <<c>>

RECURSIVE to_lowercase(_)
to_lowercase(str) ==
    IF str = <<>> THEN <<>>
    ELSE <<char_to_lowercase(Head(str))>> \o to_lowercase(Tail(str))

RECURSIVE to_uppercase(_)
to_uppercase(str) ==
    IF str = <<>> THEN <<>>
    ELSE char_to_uppercase(Head(str)) \o to_uppercase(Tail(str))

starts_with_dollar(str) == Len(str) > 0 /\ str[1] = "$"

----------------------------------------------------------------------------
(* FunctionTrie: nodes are named by the path of characters from the root;  *)
(* value[n] is the node's Option<Arc<Function>>.                           *)

EmptyTrie == [value |-> (<<>> :> None), count |-> 0]

Nodes(t) == DOMAIN t.value

\* insert without the `if node.value.is_none()` test around the increment
insert_counting_all(t, key, func) ==
    LET lk == to_lowercase(key)
        path == {SubSeq(lk, 1, n) : n \in 0..Len(lk)}
        nodes == Nodes(t) \cup path
    IN [value |-> [n \in nodes |->
                     IF n = lk THEN Some(func)
                     ELSE IF n \in Nodes(t) THEN t.value[n] ELSE None],
        count |-> t.count + 1]

insert(t, key, func) ==
    LET lk == to_lowercase(key)
        path == {SubSeq(lk, 1, n) : n \in 0..Len(lk)}
        nodes == Nodes(t) \cup path
        was_none == IF lk \in Nodes(t) THEN t.value[lk] = None ELSE TRUE
    IN [value |-> [n \in nodes |->
                     IF n = lk THEN Some(func)
                     ELSE IF n \in Nodes(t) THEN t.value[n] ELSE None],
        count |-> IF was_none THEN t.count + 1 ELSE t.count]

\* the walk `for ch in ...chars() { match node.children.get(&ch) ... }`:
\* Some(node reached) or None when a child is missing
RECURSIVE walk(_, _, _)
walk(t, node, rest) ==
    IF rest = <<>> THEN Some(node)
    ELSE IF Append(node, Head(rest)) \in Nodes(t)
         THEN walk(t, Append(node, Head(rest)), Tail(rest))
         ELSE None

get_exact_nolower(t, key) ==
    LET r == walk(t, <<>>, key)
    IN IF r = None THEN None ELSE t.value[r[1]]

get_exact(t, key) ==
    LET r == walk(t, <<>>, to_lowercase(key))
    IN IF r = None THEN None ELSE t.value[r[1]]

\* the loop of get_prefix; last_match is Option<(String, Arc<Function>)>
RECURSIVE prefix_walk(_, _, _, _)
prefix_walk(t, node, rest, last_match) ==
    IF rest = <<>> THEN last_match
    ELSE LET next == Append(node, Head(rest))
         IN IF next \in Nodes(t)
            THEN prefix_walk(t, next, Tail(rest),
                     IF t.value[next] # None
                     THEN Some([matched |-> next, func |-> t.value[next][1]])
                     ELSE last_match)
            ELSE last_match

RECURSIVE prefix_walk_first(_, _, _, _)
prefix_walk_first(t, node, rest, last_match) ==
    IF rest = <<>> THEN last_match
    ELSE LET next == Append(node, Head(rest))
         IN IF next \in Nodes(t)
            THEN prefix_walk_first(t, next, Tail(rest),
                     IF t.value[next] # None /\ last_match = None
                     THEN Some([matched |-> next, func |-> t.value[next][1]])
                     ELSE last_match)
            ELSE last_match

get_prefix_first(t, text) == prefix_walk_first(t, <<>>, to_lowercase(text), None)

get_prefix(t, text) == prefix_walk(t, <<>>, to_lowercase(text), None)

\* MetadataManager::get: the exact match first, then the prefix match, under
\* one read guard
get(t, name) ==
    IF get_exact(t, name) # None THEN get_exact(t, name)
    ELSE IF get_prefix(t, name) # None THEN Some(get_prefix(t, name)[1].func)
    ELSE None

\* children of a node (HashMap<char, Box<TrieNode>>::values(), in no fixed order)
Children(t, node) ==
    {n \in Nodes(t) : Len(n) = Len(node) + 1 /\ IsPrefixOf(node, n)}

\* all orderings of a finite set
RECURSIVE Orderings(_)
Orderings(S) ==
    IF S = {} THEN {<<>>}
    ELSE UNION {{<<x>> \o o : o \in Orderings(S \ {x})} : x \in S}

\* collect_all: the node's own value first, then each child's subtree, the
\* children taken in whatever order the hash map iterates them.  The result
\* is the set of all result vectors the traversal can produce.
RECURSIVE collect_all(_, _)
RECURSIVE collect_children(_, _)
collect_children(t, order) ==
    IF order = <<>> THEN {<<>>}
    ELSE {a \o b : a \in collect_all(t, Head(order)),
                   b \in collect_children(t, Tail(order))}

collect_all_skip_value(t, node) ==
    UNION {collect_children(t, o) : o \in Orderings(Children(t, node))}

collect_all(t, node) ==
    {t.value[node] \o rest :
        rest \in UNION {collect_children(t, o) : o \in Orderings(Children(t, node))}}

get_completions(t, prefix) ==
    LET r == walk(t, <<>>, to_lowercase(prefix))
    IN IF r = None THEN {<<>>} ELSE collect_all(t, r[1])

all_functions(t) == collect_all(t, <<>>)

trie_clear(t) == EmptyTrie

----------------------------------------------------------------------------
(* Function (src/src/types.rs): name, aliases, and the remaining fields.   *)
(* description stands for every field that ingestion copies untouched;     *)
(* category and extension are the two fields ingestion may stamp.          *)

Function(name, aliases, description, category, extension) ==
    [name |-> name, aliases |-> aliases, description |-> description,
     category |-> category, extension |-> extension]

\* Arg (src/src/types.rs): the fields validation reads; enum values are
\* strings of UTF-8 bytes
Arg(name, rest, required, arg_enum, enum_name) ==
    [name |-> name, rest |-> rest, required |-> required, arg_enum |-> arg_enum,
     enum_name |-> enum_name]

\* a Function together with the two fields validation reads: brackets is
\* Option<bool>, args is Option<Vec<Arg>>
Signature(name, aliases, brackets, args) ==
    [name |-> name, aliases |-> aliases, description |-> 1, category |-> None,
     extension |-> None, brackets |-> brackets, args |-> args]

\* serde_json::from_value::<Function>(raw): `name` is the one field without a
\* default, so an object without it fails to deserialize
from_value(raw) ==
    IF raw.name = None THEN None
    ELSE Some(Function(raw.name[1], raw.aliases, raw.description,
                       raw.category, raw.extension))

\* `if alias.starts_with('$') { alias.clone() } else { format!("${}", alias) }`
alias_name_raw(alias) == alias

alias_name(alias) ==
    IF starts_with_dollar(alias) THEN alias ELSE <<"$">> \o alias

\* the alias loop: each alias gets a clone of the record with `name` replaced
RECURSIVE insert_aliases(_, _, _)
insert_aliases(t, func, aliases) ==
    IF aliases = <<>> THEN t
    ELSE LET an == alias_name(Head(aliases))
         IN insert_aliases(insert(t, an, [func EXCEPT !.name = an]),
                           func, Tail(aliases))

\* one iteration of the `for func in functions` loop body
register(t, func) ==
    insert_aliases(insert(t, func.name, func), func,
                   IF func.aliases = None THEN <<>> ELSE func.aliases[1])

RECURSIVE add_functions(_, _)
add_functions(t, functions) ==
    IF functions = <<>> THEN t
    ELSE add_functions(register(t, Head(functions)), Tail(functions))

\* the Ok arm's normalisation: `$` prefix guaranteed, category defaulted
custom_func(f0) ==
    LET f1 == [f0 EXCEPT !.name = IF starts_with_dollar(f0.name) THEN f0.name
                                  ELSE <<"$">> \o f0.name]
    IN [f1 EXCEPT !.category = IF f1.category = None THEN Some("custom")
                               ELSE f1.category]

\* the `match serde_json::from_value::<Function>(raw)` loop of
\* add_custom_functions_from_json; acc is [trie, count]
RECURSIVE custom_loop_abort(_, _)
custom_loop_abort(acc, raw_items) ==
    IF raw_items = <<>> THEN acc
    ELSE LET parsed == from_value(Head(raw_items))
         IN IF parsed = None
            THEN acc
            ELSE custom_loop_abort([trie |-> register(acc.trie, custom_func(parsed[1])),
                                    count |-> acc.count + 1],
                                   Tail(raw_items))

RECURSIVE custom_loop(_, _)
custom_loop(acc, raw_items) ==
    IF raw_items = <<>> THEN acc
    ELSE LET parsed == from_value(Head(raw_items))
         IN IF parsed = None
            THEN custom_loop(acc, Tail(raw_items))
            ELSE custom_loop([trie |-> register(acc.trie, custom_func(parsed[1])),
                              count |-> acc.count + 1],
                             Tail(raw_items))

\* json is [wellformed, items]: serde_json::from_str::<Vec<Value>> fails on
\* text that is not a JSON array
add_custom_functions_from_json(t, json) ==
    IF ~json.wellformed
    THEN [trie |-> t, result |-> [ok |-> FALSE, err |-> "ParseError", count |-> 0]]
    ELSE LET r == custom_loop([trie |-> t, count |-> 0], json.items)
         IN [trie |-> r.trie,
             result |-> [ok |-> TRUE, err |-> "", count |-> r.count]]

\* Fetcher::fetch_functions: per-item deserialization, stamping the extension
RECURSIVE fetch_functions(_, _)
fetch_functions(raw_items, extension) ==
    IF raw_items = <<>> THEN <<>>
    ELSE LET parsed == from_value(Head(raw_items))
             rest == fetch_functions(Tail(raw_items), extension)
         IN IF parsed = None THEN rest
            ELSE <<[parsed[1] EXCEPT !.extension = Some(extension)]>> \o rest

----------------------------------------------------------------------------
(* MetadataCache and the cache codec *)

VERSION == 1

EnumNames == {"Colors"}
EventNames == {"onMessage"}

NoEnums == [n \in EnumNames |-> None]
NoEvents == [n \in EventNames |-> None]

MetadataCache(functions, cache_enums, cache_events, version) ==
    [functions |-> functions, enums |-> cache_enums, events |-> cache_events,
     version |-> version]

Registry(t, en, ev) == [trie |-> t, enums |-> en, events |-> ev]

\* `for event in cache.events { self.events.insert(event.name.clone(), event) }`
RECURSIVE insert_events(_, _)
insert_events(ev, list) ==
    IF list = <<>> THEN ev
    ELSE insert_events([ev EXCEPT ![Head(list).name] = Some(Head(list))], Tail(list))

\* `for (name, values) in cache.enums { self.enums.insert(name, values) }`
insert_enums(en, cache_enums) ==
    [n \in EnumNames |-> IF cache_enums[n] # None THEN cache_enums[n] ELSE en[n]]

manager_clear(reg) == Registry(trie_clear(reg.trie), NoEnums, NoEvents)

import_cache_clear_first(reg, cache) ==
    IF cache.version # VERSION
    THEN [reg |-> manager_clear(reg), result |-> [ok |-> FALSE, err |-> "CacheError", count |-> 0]]
    ELSE LET c == manager_clear(reg)
         IN [reg |-> Registry(add_functions(c.trie, cache.functions),
                              insert_enums(c.enums, cache.enums),
                              insert_events(c.events, cache.events)),
             result |-> [ok |-> TRUE, err |-> "", count |-> 0]]

import_cache(reg, cache) ==
    IF cache.version # VERSION
    THEN [reg |-> reg, result |-> [ok |-> FALSE, err |-> "CacheError", count |-> 0]]
    ELSE LET c == manager_clear(reg)
         IN [reg |-> Registry(add_functions(c.trie, cache.functions),
                              insert_enums(c.enums, cache.enums),
                              insert_events(c.events, cache.events)),
             result |-> [ok |-> TRUE, err |-> "", count |-> 0]]

\* all_events(): the present events, in the map's iteration order
all_events(ev) == Orderings({ev[n][1] : n \in {m \in EventNames : ev[m] # None}})

\* export_cache: every vector the three snapshots can produce
export_cache(reg) ==
    {MetadataCache(fs, reg.enums, evs, VERSION) :
        fs \in all_functions(reg.trie), evs \in all_events(reg.events)}

----------------------------------------------------------------------------
(* Inputs *)

Raw(name, aliases, payload) ==
    [name |-> Some(name), aliases |-> aliases, description |-> payload.description,
     category |-> payload.category, extension |-> None]

Plain == [description |-> 1, category |-> None]
Categorised == [description |-> 2, category |-> Some("util")]

\* JSON objects that deserialize to a Function: an empty name, a name without
\* `$`, names that differ in case only, aliases with and without `$`, aliases
\* that collide with each other and with a name
ValidRaws ==
    {Raw(<<>>, None, Plain),
     Raw(<<"s">>, None, Plain),
     Raw(<<"$", "s">>, None, Categorised),
     Raw(<<"$", "S">>, Some(<< <<"s", "s">> >>), Plain),
     Raw(<<"s">>, Some(<< <<"$", "S">>, <<"s">> >>), Plain)}

\* a JSON object without `name`
InvalidRaw ==
    [name |-> None, aliases |-> None, description |-> 1, category |-> None,
     extension |-> None]

RawPool == ValidRaws \cup {InvalidRaw}

FuncPool == {from_value(r)[1] : r \in ValidRaws}

Queries == SeqsUpTo(Chars, MaxQueryLen)

SomeEnums == [n \in EnumNames |-> Some(<<"Red", "Blue">>)]
SomeEvent == [name |-> "onMessage", description |-> 1]

----------------------------------------------------------------------------
(* std::sync::RwLock<FunctionTrie> and the threads that share the manager *)

Writers == {"w1", "w2"}
Readers == {"r1"}
Threads == Writers \cup Readers

Unlocked == [writer |-> None, readers |-> {}]

\* RwLock::write() returns once there is no writer and no reader
write_available(l) == l.writer = None /\ l.readers = {}

\* RwLock::read() returns once there is no writer
read_available(l) == l.writer = None

\* `self.trie.write().unwrap().insert(..)`: a guard that is a temporary of the
\* insert statement
guard_scope_statement == "statement"

\* `let mut trie = self.trie.write().unwrap();` before the loop: the guard is
\* a local of the function body and is dropped when the function returns
guard_scope == "function"

\* the trie.insert calls one record makes, in order: its name, then each alias
alias_calls(func) ==
    LET aliases == IF func.aliases = None THEN <<>> ELSE func.aliases[1]
    IN [i \in 1..Len(aliases) |->
            [key |-> alias_name(aliases[i]),
             func |-> [func EXCEPT !.name = alias_name(aliases[i])]]]

RECURSIVE insert_calls(_)
insert_calls(functions) ==
    IF functions = <<>> THEN <<>>
    ELSE <<[key |-> Head(functions).name, func |-> Head(functions)]>>
         \o alias_calls(Head(functions)) \o insert_calls(Tail(functions))

\* the records the Ok arm of add_custom_functions_from_json registers
RECURSIVE custom_functions(_)
custom_functions(raw_items) ==
    IF raw_items = <<>> THEN <<>>
    ELSE LET parsed == from_value(Head(raw_items))
             rest == custom_functions(Tail(raw_items))
         IN IF parsed = None THEN rest ELSE <<custom_func(parsed[1])>> \o rest

\* the trie.insert calls a writer's call makes while it holds the write guard
calls_of(call) ==
    IF call.op = "add_functions" THEN insert_calls(call.items)
    ELSE insert_calls(custom_functions(call.items))

\* w1 installs a fetched batch, w2 a custom-functions JSON array
WriterOp == [w \in Writers |->
                IF w = "w1" THEN "add_functions"
                ELSE "add_custom_functions_from_json"]

ConcRaws ==
    {Raw(<<"$", "S">>, Some(<< <<"s", "s">> >>), Plain),
     Raw(<<"s">>, None, Categorised)}

ConcBatches(op) ==
    IF op = "add_functions"
    THEN SeqsUpTo({from_value(r)[1] : r \in ConcRaws}, MaxBatch)
    ELSE SeqsUpTo(ConcRaws, MaxBatch)

ReaderOps == {"get_exact", "get_prefix", "get", "get_completions"}

ConcQueries == {<<"$", "s">>, <<"$", "S", "S", "s">>}

NoLookup ==
    [op |-> "none", q |-> <<>>, exact |-> None, prefix |-> None, completions |-> <<>>]

----------------------------------------------------------------------------
(* src/src/parser.rs: bytes, strings, spans, nodes                         *)
(* A string is the sequence of its UTF-8 bytes; Rust's 0-based byte index  *)
(* i is element i + 1.                                                      *)

DOLLAR == 36        \* b'$'
LBRACKET == 91      \* b'['
RBRACKET == 93      \* b']'
SEMICOLON == 59     \* b';'
BACKSLASH == 92     \* b'\\'
BACKTICK == 96      \* b'`'
LBRACE == 123       \* b'{'
RBRACE == 125       \* b'}'
BANG == 33          \* b'!'
HASH == 35          \* b'#'
AT == 64            \* b'@'
COMMA == 44         \* b','
UNDERSCORE == 95    \* b'_'

\* b"code: `"
CODE_OPEN == <<99, 111, 100, 101, 58, 32, 96>>

Min(a, b) == IF a <= b THEN a ELSE b

\* bytes[i]
B(bytes, i) == bytes[i + 1]

\* bytes.get(i).copied()
byte_get(bytes, i) == IF i >= 0 /\ i < Len(bytes) THEN Some(bytes[i + 1]) ELSE None

\* &s[start..end]
str_slice(s, start, end) == SubSeq(s, start + 1, end)

is_ascii_alphanumeric(b) == b \in (48..57) \cup (65..90) \cup (97..122)

is_ascii_whitespace(b) == b \in {9, 10, 12, 13, 32}

is_identifier_byte(b) == is_ascii_alphanumeric(b) \/ b = UNDERSCORE

\* str::is_char_boundary: the start, the end, or a byte that is not a
\* continuation byte (0x80..0xBF)
is_char_boundary(code, idx) ==
    \/ idx = 0
    \/ idx = Len(code)
    \/ idx < Len(code) /\ B(code, idx) \notin 128..191

\* `byte as char` pushed onto a String: the code point U+0000..U+00FF with
\* the byte's value, in UTF-8
byte_as_char(b) ==
    IF b < 128 THEN <<b>> ELSE <<192 + (b \div 64), 128 + (b % 64)>>

RECURSIVE backslashes_before(_, _)
backslashes_before(bytes, i) ==
    IF i > 0 /\ B(bytes, i - 1) = BACKSLASH
    THEN 1 + backslashes_before(bytes, i - 1)
    ELSE 0

is_escaped(code, byte_idx) ==
    IF byte_idx = 0 \/ ~is_char_boundary(code, byte_idx) THEN FALSE
    ELSE backslashes_before(code, byte_idx) % 2 # 0

ValidationConfig(validate_arguments, validate_enums, validate_functions, validate_brackets) ==
    [validate_arguments |-> validate_arguments, validate_enums |-> validate_enums,
     validate_functions |-> validate_functions, validate_brackets |-> validate_brackets]

config_default == ValidationConfig(FALSE, FALSE, FALSE, FALSE)

syntax_only == ValidationConfig(FALSE, FALSE, FALSE, TRUE)

strict == ValidationConfig(TRUE, TRUE, TRUE, TRUE)

is_enabled(cfg) ==
    \/ cfg.validate_arguments
    \/ cfg.validate_enums
    \/ cfg.validate_functions
    \/ cfg.validate_brackets

Span(start, end) == [start |-> start, end |-> end]

span_offset(span, offset) == Span(span.start + offset, span.end + offset)

span_offset_opt(span, offset) ==
    IF span = None THEN None ELSE Some(span_offset(span[1], offset))

Text(content, span) == [kind |-> "Text", content |-> content, span |-> span]

JavaScript(code, span) == [kind |-> "JavaScript", code |-> code, span |-> span]

Escaped(content, span) == [kind |-> "Escaped", content |-> content, span |-> span]

Program(body, span) == [kind |-> "Program", body |-> body, span |-> span]

Argument(parts, span) == [parts |-> parts, span |-> span]

\* char::is_whitespace, for the code points below U+0080
is_whitespace(b) == b \in {9, 10, 11, 12, 13, 32}

RECURSIVE trim_start(_)
trim_start(str) ==
    IF str # <<>> /\ is_whitespace(Head(str)) THEN trim_start(Tail(str)) ELSE str

RECURSIVE trim_end(_)
trim_end(str) ==
    IF str # <<>> /\ is_whitespace(str[Len(str)])
    THEN trim_end(SubSeq(str, 1, Len(str) - 1))
    ELSE str

\* str::trim
trim(str) == trim_end(trim_start(str))

\* Argument::is_empty
Argument_is_empty(arg) ==
    \A i \in 1..Len(arg.parts) :
        arg.parts[i].kind = "Text" /\ trim(arg.parts[i].content) = <<>>

RECURSIVE concat_contents(_)
concat_contents(parts) ==
    IF parts = <<>> THEN <<>>
    ELSE Head(parts).content \o concat_contents(Tail(parts))

\* Argument::as_text
as_text(arg) ==
    IF \A i \in 1..Len(arg.parts) : arg.parts[i].kind = "Text"
    THEN Some(concat_contents(arg.parts))
    ELSE None

Modifiers_default == [silent |-> FALSE, negated |-> FALSE, count |-> None, span |-> None]

FunctionCall(name, name_span, modifier_span, args_span, args, modifiers, full_span, span) ==
    [kind |-> "FunctionCall", name |-> name, name_span |-> name_span,
     modifier_span |-> modifier_span, args_span |-> args_span, args |-> args,
     modifiers |-> modifiers, full_span |-> full_span, span |-> span]

ParseError(message, span, kind) == [message |-> message, span |-> span, kind |-> kind]

syntax(message, span) == ParseError(message, span, "Syntax")

RECURSIVE offset_spans(_, _)
offset_spans(node, offset) ==
    IF node.kind = "Program"
    THEN [node EXCEPT !.span = span_offset(@, offset),
                      !.body = [i \in 1..Len(node.body) |-> offset_spans(node.body[i], offset)]]
    ELSE IF node.kind = "FunctionCall"
    THEN [node EXCEPT
            !.span = span_offset(@, offset),
            !.name_span = span_offset(@, offset),
            !.full_span = span_offset(@, offset),
            !.modifier_span = span_offset_opt(@, offset),
            !.args_span = span_offset_opt(@, offset),
            !.args = IF node.args = None THEN None
                     ELSE Some([i \in 1..Len(node.args[1]) |->
                            Argument([j \in 1..Len(node.args[1][i].parts) |->
                                         offset_spans(node.args[1][i].parts[j], offset)],
                                     span_offset(node.args[1][i].span, offset))])]
    ELSE [node EXCEPT !.span = span_offset(@, offset)]

error_offset(error, offset) == [error EXCEPT !.span = span_offset(@, offset)]

errors_offset(errors, offset) ==
    [i \in 1..Len(errors) |-> error_offset(errors[i], offset)]

----------------------------------------------------------------------------
(* struct Parser: source, pos, errors, config, metadata; metadata is        *)
(* Option<Arc<MetadataManager>>, the registry the manager holds              *)

with_config(source_, config_) ==
    [source |-> source_, pos |-> 0, errors |-> <<>>, config |-> config_,
     metadata |-> None]

with_validation(source_, config_, metadata_) ==
    [source |-> source_, pos |-> 0, errors |-> <<>>, config |-> config_,
     metadata |-> Some(metadata_)]

Parser_new(source_) == with_config(source_, config_default)

\* the parser made for a block's content and for an argument's text
inner_parser(self, content) ==
    IF is_enabled(self.config)
    THEN IF self.metadata # None
         THEN with_validation(content, self.config, self.metadata[1])
         ELSE with_config(content, self.config)
    ELSE Parser_new(content)

is_eof(self) == self.pos >= Len(self.source)

current_byte(self) == byte_get(self.source, self.pos)

peek_byte(self, offset) == byte_get(self.source, self.pos + offset)

advance(self) == IF current_byte(self) = None THEN self ELSE [self EXCEPT !.pos = @ + 1]

slice(self, start, end) == str_slice(self.source, start, Min(end, Len(self.source)))

is_escaped_at(self, pos_) == is_escaped(self.source, pos_)

push_error(self, cond, error) ==
    IF cond THEN [self EXCEPT !.errors = Append(@, error)] ELSE self

RECURSIVE scan_code_block_start(_, _)
scan_code_block_start(self, p) ==
    IF p + 7 > Len(self.source) THEN None
    ELSE IF /\ str_slice(self.source, p, p + 7) = CODE_OPEN
            /\ \/ p = 0
               \/ is_ascii_whitespace(B(self.source, p - 1))
               \/ B(self.source, p - 1) = LBRACE
               \/ B(self.source, p - 1) = COMMA
            /\ ~is_escaped(self.source, p + 6)
    THEN Some(p)
    ELSE scan_code_block_start(self, p + 1)

find_code_block_start(self) == scan_code_block_start(self, self.pos)

RECURSIVE scan_code_block_end(_, _)
scan_code_block_end(self, p) ==
    IF p >= Len(self.source) THEN None
    ELSE IF B(self.source, p) = BACKTICK /\ ~is_escaped(self.source, p) THEN Some(p)
    ELSE scan_code_block_end(self, p + 1)

\* find_code_block_end, were an escaped backtick to close the block
find_code_block_end_any(self) ==
    LET ticks == {p \in self.pos..(Len(self.source) - 1) : B(self.source, p) = BACKTICK}
    IN IF ticks = {} THEN None
       ELSE Some(CHOOSE p \in ticks : \A q \in ticks : p <= q)

find_code_block_end(self) == scan_code_block_end(self, self.pos)

RECURSIVE scan_matching_bracket(_, _, _)
scan_matching_bracket(self, p, depth) ==
    IF p >= Len(self.source) THEN None
    ELSE IF B(self.source, p) = BACKSLASH THEN scan_matching_bracket(self, p + 2, depth)
    ELSE IF B(self.source, p) = LBRACKET /\ ~is_escaped(self.source, p)
    THEN scan_matching_bracket(self, p + 1, depth + 1)
    ELSE IF B(self.source, p) = RBRACKET /\ ~is_escaped(self.source, p)
    THEN IF depth - 1 = 0 THEN Some(p)
         ELSE scan_matching_bracket(self, p + 1, depth - 1)
    ELSE scan_matching_bracket(self, p + 1, depth)

find_matching_bracket(self, open_pos) == scan_matching_bracket(self, open_pos + 1, 1)

RECURSIVE scan_matching_brace(_, _, _)
scan_matching_brace(self, p, depth) ==
    IF p >= Len(self.source) THEN None
    ELSE IF B(self.source, p) = LBRACE THEN scan_matching_brace(self, p + 1, depth + 1)
    ELSE IF B(self.source, p) = RBRACE
    THEN IF depth - 1 = 0 THEN Some(p)
         ELSE scan_matching_brace(self, p + 1, depth - 1)
    ELSE scan_matching_brace(self, p + 1, depth)

find_matching_brace(self, open_pos) == scan_matching_brace(self, open_pos + 1, 1)

\* matches!(name, "c" | "C" | "escape")
is_escape_function(name) ==
    name \in {<<99>>, <<67>>, <<101, 115, 99, 97, 112, 101>>}

\* is_function_bracket, first loop: back over identifier bytes
RECURSIVE back_over_identifier(_, _)
back_over_identifier(bytes, i) ==
    IF i > 0 /\ is_identifier_byte(B(bytes, i - 1))
    THEN back_over_identifier(bytes, i - 1)
    ELSE i

\* is_function_bracket, innermost loop: back to the `[` that balances a `]`;
\* st is [i, d]
RECURSIVE back_over_count(_, _)
back_over_count(bytes, st) ==
    IF st.i > 1 /\ st.d > 0
    THEN LET i1 == st.i - 1
         IN back_over_count(bytes,
                [i |-> i1,
                 d |-> IF B(bytes, i1 - 1) = RBRACKET THEN st.d + 1
                       ELSE IF B(bytes, i1 - 1) = LBRACKET THEN st.d - 1
                       ELSE st.d])
    ELSE st

\* is_function_bracket, second loop: back over `!`, `#` and `@[..]`; the
\* result is [ok, i], ok = FALSE for the early `return false`
RECURSIVE back_over_modifiers(_, _)
back_over_modifiers(bytes, i) ==
    IF i > 0 /\ B(bytes, i - 1) \in {BANG, HASH, RBRACKET}
    THEN IF B(bytes, i - 1) = RBRACKET
         THEN LET i1 == back_over_count(bytes, [i |-> i, d |-> 1]).i
              IN IF i1 < 2 \/ B(bytes, i1 - 2) # AT
                 THEN [ok |-> FALSE, i |-> i1]
                 ELSE back_over_modifiers(bytes, i1 - 2)
         ELSE back_over_modifiers(bytes, i - 1)
    ELSE [ok |-> TRUE, i |-> i]

is_function_bracket(content, idx) ==
    IF idx = 0 \/ byte_get(content, idx) # Some(LBRACKET) THEN FALSE
    ELSE LET r == back_over_modifiers(content, back_over_identifier(content, idx))
         IN /\ r.ok
            /\ r.i > 0
            /\ B(content, r.i - 1) = DOLLAR
            /\ (r.i = 1 \/ B(content, r.i - 2) # BACKSLASH)

RECURSIVE skip_bang_hash(_, _)
skip_bang_hash(bytes, p) ==
    IF p < Len(bytes) /\ B(bytes, p) \in {BANG, HASH} THEN skip_bang_hash(bytes, p + 1)
    ELSE p

RECURSIVE skip_identifier(_, _)
skip_identifier(bytes, p) ==
    IF p < Len(bytes) /\ is_identifier_byte(B(bytes, p)) THEN skip_identifier(bytes, p + 1)
    ELSE p

RECURSIVE scan_escape_end(_, _, _)
scan_escape_end(content, p, depth) ==
    IF p >= Len(content) THEN None
    ELSE IF B(content, p) = BACKSLASH THEN scan_escape_end(content, p + 2, depth)
    ELSE IF B(content, p) = LBRACKET /\ ~is_escaped(content, p)
    THEN scan_escape_end(content, p + 1, depth + 1)
    ELSE IF B(content, p) = RBRACKET /\ ~is_escaped(content, p)
    THEN IF depth - 1 = 0 THEN Some(p)
         ELSE scan_escape_end(content, p + 1, depth - 1)
    ELSE scan_escape_end(content, p + 1, depth)

find_escape_function_end(content, start) ==
    LET name_start == skip_bang_hash(content, start + 1)
        p == skip_identifier(content, name_start)
    IN IF \/ ~is_escape_function(str_slice(content, name_start, p))
          \/ byte_get(content, p) # Some(LBRACKET)
       THEN None
       ELSE scan_escape_end(content, p + 1, 1)

----------------------------------------------------------------------------
(* Parsing: each operation returns the parser after it and what it made    *)

RECURSIVE parse_forge_script(_)

\* parse_text, the loop: the position it stops at
RECURSIVE text_end(_)
text_end(self) ==
    IF is_eof(self) THEN self.pos
    ELSE IF current_byte(self) = Some(BACKSLASH) THEN self.pos
    ELSE IF current_byte(self) = Some(DOLLAR) /\ ~is_escaped_at(self, self.pos) THEN self.pos
    ELSE text_end(advance(self))

parse_text(self) ==
    LET start == self.pos
        end == text_end(self)
    IN [self |-> [self EXCEPT !.pos = end],
        node |-> IF end > start THEN Some(Text(slice(self, start, end), Span(start, end)))
                 ELSE None]

\* an escape subroutine that keeps the backslash of an escaped special
\* character in the node's content
parse_escape_sequence_keep(self) ==
    LET start == self.pos
        s1 == advance(self)
        next == current_byte(s1)
    IN IF next # None /\ next[1] \in {BACKSLASH, DOLLAR, LBRACKET, RBRACKET, SEMICOLON, BACKTICK}
       THEN [self |-> advance(s1),
             node |-> Some(Text(slice(s1, start, advance(s1).pos),
                                Span(start, advance(s1).pos)))]
       ELSE [self |-> s1,
             node |-> Some(Text(<<BACKSLASH>>, Span(start, start + 1)))]

parse_escape_sequence(self) ==
    LET start == self.pos
        s1 == advance(self)
        next == current_byte(s1)
    IN IF next = Some(BACKSLASH)
       THEN [self |-> advance(s1),
             node |-> Some(Text(<<BACKSLASH>>, Span(start, advance(s1).pos)))]
       ELSE IF next # None /\ next[1] \in {DOLLAR, LBRACKET, RBRACKET, SEMICOLON, BACKTICK}
       THEN [self |-> advance(s1),
             node |-> Some(Text(slice(s1, start + 1, advance(s1).pos),
                                Span(start, advance(s1).pos)))]
       ELSE [self |-> s1,
             node |-> Some(Text(<<BACKSLASH>>, Span(start, start + 1)))]

parse_javascript(self) ==
    LET start == self.pos
        s2 == advance(advance(self))
        brace_start == s2.pos - 1
        found == find_matching_brace(s2, brace_start)
    IN IF found # None
       THEN [self |-> [s2 EXCEPT !.pos = found[1] + 1],
             node |-> JavaScript(slice(s2, brace_start + 1, found[1]),
                                 Span(start, found[1] + 1))]
       ELSE [self |-> [push_error(s2, s2.config.validate_brackets,
                                  syntax("Unclosed JavaScript expression",
                                         Span(start, Len(s2.source))))
                          EXCEPT !.pos = Len(s2.source)],
             node |-> JavaScript(<<>>, Span(start, Len(s2.source)))]

\* parse_modifiers, the loop; the result is [self, modifiers]
RECURSIVE modifiers_loop(_, _)
modifiers_loop(self, modifiers) ==
    IF current_byte(self) = Some(BANG)
    THEN modifiers_loop(advance(self), [modifiers EXCEPT !.silent = TRUE])
    ELSE IF current_byte(self) = Some(HASH)
    THEN modifiers_loop(advance(self), [modifiers EXCEPT !.negated = TRUE])
    ELSE IF current_byte(self) = Some(AT) /\ peek_byte(self, 1) = Some(LBRACKET)
    THEN LET s1 == advance(self)
             bracket_start == s1.pos
             s2 == advance(s1)
             found == find_matching_bracket(s2, bracket_start)
         IN IF found # None
            THEN modifiers_loop([s2 EXCEPT !.pos = found[1] + 1],
                                [modifiers EXCEPT !.count =
                                    Some(slice(s2, bracket_start + 1, found[1]))])
            ELSE [self |-> push_error(s2, s2.config.validate_brackets,
                                      syntax("Unclosed modifier bracket",
                                             Span(bracket_start, bracket_start + 1))),
                  modifiers |-> modifiers]
    ELSE [self |-> self, modifiers |-> modifiers]

parse_modifiers(self) ==
    LET start == self.pos
        spanned(r) ==
            [self |-> r.self,
             modifiers |-> IF r.self.pos > start
                           THEN [r.modifiers EXCEPT !.span = Some(Span(start, r.self.pos))]
                           ELSE r.modifiers]
    IN spanned(modifiers_loop(self, Modifiers_default))

parse_identifier(self) ==
    LET start == self.pos
        end == skip_identifier(self.source, self.pos)
    IN [self |-> [self EXCEPT !.pos = end], name |-> slice(self, start, end)]

parse_escape_function(self, start, name, name_span) ==
    IF current_byte(self) # Some(LBRACKET)
    THEN [self |-> push_error(self, self.config.validate_brackets,
                              ParseError("requires brackets", name_span, "BracketUsage")),
          node |-> Text(slice(self, start, self.pos), Span(start, self.pos))]
    ELSE LET bracket_start == self.pos
             s1 == advance(self)
             found == find_matching_bracket(s1, bracket_start)
         IN IF found # None
            THEN [self |-> [s1 EXCEPT !.pos = found[1] + 1],
                  node |-> Escaped(slice(s1, bracket_start + 1, found[1]),
                                   Span(start, found[1] + 1))]
            ELSE [self |-> [push_error(s1, s1.config.validate_brackets,
                                       syntax("Unclosed '[' for", name_span))
                               EXCEPT !.pos = Len(s1.source)],
                  node |-> Escaped(<<>>, Span(start, Len(s1.source)))]

\* the result is [self, parts]
parse_argument_parts(self, content, offset) ==
    IF content = <<>>
    THEN [self |-> self, parts |-> <<Text(<<>>, Span(offset, offset))>>]
    ELSE LET offset_parts(inner) ==
                 [self |-> [self EXCEPT !.errors = @ \o errors_offset(inner.errors, offset)],
                  parts |-> [i \in 1..Len(inner.ast.body) |->
                                 offset_spans(inner.ast.body[i], offset)]]
         IN offset_parts(parse_forge_script(inner_parser(self, content)))

\* `args.push(Argument { parts, span })` for the text collected in current
push_argument(self, st, base_offset) ==
    LET arg_offset == base_offset + st.arg_start
        pushed(r) ==
            [self |-> r.self,
             args |-> Append(st.args,
                             Argument(r.parts,
                                      Span(arg_offset, arg_offset + Len(st.current))))]
    IN pushed(parse_argument_parts(self, st.current, arg_offset))

\* parse_arguments, the loop; st is [args, current, depth, i, arg_start] and
\* the result is [self, args]
RECURSIVE arguments_loop(_, _, _, _)
arguments_loop(self, content, base_offset, st) ==
    IF st.i >= Len(content)
    THEN IF st.current # <<>> \/ st.args # <<>>
         THEN push_argument(self, st, base_offset)
         ELSE [self |-> self, args |-> st.args]
    ELSE LET b == B(content, st.i)
             esc_end == IF b = DOLLAR /\ st.depth = 0
                        THEN find_escape_function_end(content, st.i)
                        ELSE None
         IN IF esc_end # None
            THEN arguments_loop(self, content, base_offset,
                    [st EXCEPT !.current = @ \o str_slice(content, st.i, esc_end[1] + 1),
                               !.i = esc_end[1] + 1])
            ELSE IF b = BACKSLASH
            THEN IF /\ byte_get(content, st.i + 1) # None
                    /\ B(content, st.i + 1) \in
                         {BACKTICK, DOLLAR, LBRACKET, RBRACKET, SEMICOLON, BACKSLASH}
                 THEN arguments_loop(self, content, base_offset,
                        [st EXCEPT !.current = @ \o str_slice(content, st.i, st.i + 2),
                                   !.i = @ + 2])
                 ELSE arguments_loop(self, content, base_offset,
                        [st EXCEPT !.current = Append(@, BACKSLASH), !.i = @ + 1])
            ELSE IF b = LBRACKET /\ ~is_escaped(content, st.i)
                    /\ is_function_bracket(content, st.i)
            THEN arguments_loop(self, content, base_offset,
                    [st EXCEPT !.depth = @ + 1, !.current = Append(@, LBRACKET),
                               !.i = @ + 1])
            ELSE IF b = RBRACKET /\ st.depth > 0 /\ ~is_escaped(content, st.i)
            THEN arguments_loop(self, content, base_offset,
                    [st EXCEPT !.depth = @ - 1, !.current = Append(@, RBRACKET),
                               !.i = @ + 1])
            ELSE IF b = SEMICOLON /\ st.depth = 0
            THEN LET next_argument(r) ==
                         arguments_loop(r.self, content, base_offset,
                            [st EXCEPT !.args = r.args, !.current = <<>>,
                                       !.arg_start = st.i + 1, !.i = @ + 1])
                 IN next_argument(push_argument(self, st, base_offset))
            ELSE arguments_loop(self, content, base_offset,
                    [st EXCEPT !.current = @ \o byte_as_char(b), !.i = @ + 1])

\* parse_arguments, were empty brackets to hold one empty argument
parse_arguments_one_empty(self, content, base_offset) ==
    LET st0 == [args |-> <<>>, current |-> <<>>, depth |-> 0, i |-> 0, arg_start |-> 0]
    IN IF content = <<>> THEN push_argument(self, st0, base_offset)
       ELSE arguments_loop(self, content, base_offset, st0)

parse_arguments(self, content, base_offset) ==
    arguments_loop(self, content, base_offset,
                   [args |-> <<>>, current |-> <<>>, depth |-> 0, i |-> 0, arg_start |-> 0])

\* parse_function_arguments, were the diagnostic not to depend on the
\* configuration
parse_function_arguments_loud(self) ==
    LET bracket_start == self.pos
        s1 == advance(self)
        found == find_matching_bracket(s1, bracket_start)
    IN IF found # None
       THEN LET closed(r) ==
                    [self |-> [r.self EXCEPT !.pos = found[1] + 1], args |-> Some(r.args)]
            IN closed(parse_arguments(s1, slice(s1, bracket_start + 1, found[1]),
                                      bracket_start + 1))
       ELSE [self |-> push_error(s1, TRUE,
                                 syntax("Unclosed function arguments",
                                        Span(bracket_start, bracket_start + 1))),
             args |-> None]

\* the result is [self, args], args an Option
parse_function_arguments(self) ==
    LET bracket_start == self.pos
        s1 == advance(self)
        found == find_matching_bracket(s1, bracket_start)
    IN IF found # None
       THEN LET closed(r) ==
                    [self |-> [r.self EXCEPT !.pos = found[1] + 1], args |-> Some(r.args)]
            IN closed(parse_arguments(s1, slice(s1, bracket_start + 1, found[1]),
                                      bracket_start + 1))
       ELSE [self |-> push_error(s1, s1.config.validate_brackets,
                                 syntax("Unclosed function arguments",
                                        Span(bracket_start, bracket_start + 1))),
             args |-> None]

\* the characters of an ASCII string, as the registry's keys have them
char_of == (36 :> "$") @@ (83 :> "S") @@ (115 :> "s")

\* str::chars of a string of ASCII bytes; a byte outside char_of is a
\* character of its own
str_chars(bytes) ==
    [i \in 1..Len(bytes) |->
        IF bytes[i] \in DOMAIN char_of THEN char_of[bytes[i]] ELSE ToString(bytes[i])]

\* the UTF-8 bytes of the registry's enum values
as_bytes == ("Red" :> <<82, 101, 100>>) @@ ("Blue" :> <<66, 108, 117, 101>>)

\* MetadataManager::get_enum, the values as bytes
get_enum(reg, name) ==
    IF name \notin DOMAIN reg.enums \/ reg.enums[name] = None THEN None
    ELSE Some([i \in 1..Len(reg.enums[name][1]) |-> as_bytes[reg.enums[name][1][i]]])

\* Option<bool>::unwrap_or(false)
unwrap_or_false(opt) == IF opt = None THEN FALSE ELSE opt[1]

validate_enum_value(self, func_name, arg, func_arg, name_span) ==
    IF ~unwrap_or_false(func_arg.required) /\ Argument_is_empty(arg) THEN self
    ELSE LET enum_values ==
                 IF func_arg.enum_name # None
                 THEN IF self.metadata # None
                      THEN get_enum(self.metadata[1], func_arg.enum_name[1])
                      ELSE None
                 ELSE func_arg.arg_enum
         IN push_error(self,
                /\ enum_values # None
                /\ as_text(arg) # None
                /\ trim(as_text(arg)[1]) # <<>>
                /\ trim(as_text(arg)[1]) \notin Range(enum_values[1]),
                ParseError("Invalid value for argument", name_span, "EnumValue"))

\* validate_arguments, the loop over the provided arguments; i is 0-based
RECURSIVE enum_loop(_, _, _, _, _, _)
enum_loop(self, func_name, provided_args, func_args, name_span, i) ==
    IF i >= Len(provided_args) THEN self
    ELSE IF i < Len(func_args)
    THEN enum_loop(validate_enum_value(self, func_name, provided_args[i + 1],
                                       func_args[i + 1], name_span),
                   func_name, provided_args, func_args, name_span, i + 1)
    ELSE IF \E k \in 1..Len(func_args) : func_args[k].rest
    THEN enum_loop(validate_enum_value(self, func_name, provided_args[i + 1],
                                       func_args[Len(func_args)], name_span),
                   func_name, provided_args, func_args, name_span, i + 1)
    ELSE enum_loop(self, func_name, provided_args, func_args, name_span, i + 1)

\* validate_arguments, were a required rest item to count as required
validate_arguments_rest_required(self, func_name, provided_args, func_args, name_span) ==
    LET provided_count == Len(provided_args)
        has_rest == \E k \in 1..Len(func_args) : func_args[k].rest
        required_count ==
            Cardinality({k \in 1..Len(func_args) :
                            unwrap_or_false(func_args[k].required)})
        max_count == Len(func_args)
        counted(s1) ==
            IF s1.config.validate_enums
            THEN enum_loop(s1, func_name, provided_args, func_args, name_span, 0)
            ELSE s1
    IN counted(
        IF ~self.config.validate_arguments THEN self
        ELSE IF provided_count < required_count
        THEN push_error(self, TRUE,
                 ParseError("requires at least", name_span, "ArgumentCount"))
        ELSE push_error(self, ~has_rest /\ provided_count > max_count,
                 ParseError("accepts at most", name_span, "ArgumentCount")))

\* max_count is func_args.len() whenever has_rest is false, and it is read
\* only then
validate_arguments(self, func_name, provided_args, func_args, name_span) ==
    LET provided_count == Len(provided_args)
        has_rest == \E k \in 1..Len(func_args) : func_args[k].rest
        required_count ==
            Cardinality({k \in 1..Len(func_args) :
                            unwrap_or_false(func_args[k].required) /\ ~func_args[k].rest})
        max_count == Len(func_args)
        counted(s1) ==
            IF s1.config.validate_enums
            THEN enum_loop(s1, func_name, provided_args, func_args, name_span, 0)
            ELSE s1
    IN counted(
        IF ~self.config.validate_arguments THEN self
        ELSE IF provided_count < required_count
        THEN push_error(self, TRUE,
                 ParseError("requires at least", name_span, "ArgumentCount"))
        ELSE push_error(self, ~has_rest /\ provided_count > max_count,
                 ParseError("accepts at most", name_span, "ArgumentCount")))

\* validate_function_call, were brackets: None to mean optional
validate_function_call_lenient(self, name, func, args, has_brackets, name_span) ==
    LET bracketed(s1) ==
            IF /\ s1.config.validate_arguments \/ s1.config.validate_enums
               /\ has_brackets
               /\ args # None
               /\ func.args # None
            THEN validate_arguments(s1, name, args[1], func.args[1], name_span)
            ELSE s1
    IN bracketed(
        IF ~self.config.validate_brackets THEN self
        ELSE IF func.brackets = Some(TRUE)
        THEN push_error(self, ~has_brackets,
                 ParseError("requires brackets", name_span, "BracketUsage"))
        ELSE self)

validate_function_call(self, name, func, args, has_brackets, name_span) ==
    LET bracketed(s1) ==
            IF /\ s1.config.validate_arguments \/ s1.config.validate_enums
               /\ has_brackets
               /\ args # None
               /\ func.args # None
            THEN validate_arguments(s1, name, args[1], func.args[1], name_span)
            ELSE s1
    IN bracketed(
        IF ~self.config.validate_brackets THEN self
        ELSE IF func.brackets = Some(TRUE)
        THEN push_error(self, ~has_brackets,
                 ParseError("requires brackets", name_span, "BracketUsage"))
        ELSE IF func.brackets = Some(FALSE) THEN self
        ELSE push_error(self, has_brackets,
                 ParseError("does not accept brackets", name_span, "BracketUsage")))

\* the validation block of parse_function_call when no metadata is attached
validate_without_metadata(self, name_span) ==
    push_error(self, is_enabled(self.config) /\ self.config.validate_functions,
               ParseError("Cannot validate function: no metadata available",
                          name_span, "UnknownFunction"))

\* the validation block of parse_function_call
validate(self, name, args, has_brackets, name_span) ==
    LET full_name == IF name # <<>> /\ name[1] = DOLLAR THEN name ELSE <<DOLLAR>> \o name
        found(func) ==
            IF func # None
            THEN validate_function_call(self, full_name, func[1], args, has_brackets,
                                        name_span)
            ELSE push_error(self, self.config.validate_functions,
                     ParseError("Unknown function", name_span, "UnknownFunction"))
    IN IF ~is_enabled(self.config) THEN self
       ELSE IF self.metadata # None
       THEN found(get(self.metadata[1].trie, str_chars(full_name)))
       ELSE validate_without_metadata(self, name_span)

\* parse_function_call after the modifiers m and the identifier id
function_call_named(start, modifier_start, m, id) ==
    LET modifier_end == m.self.pos
        modifier_span == IF modifier_end > modifier_start
                         THEN Some(Span(modifier_start, modifier_end)) ELSE None
        name_end == id.self.pos
        name_span == Span(modifier_start, name_end)
        has_brackets == current_byte(id.self) = Some(LBRACKET)
        bracket_open == id.self.pos
        call(a) ==
            [self |-> validate(a.self, id.name, a.args, has_brackets, name_span),
             node |-> FunctionCall(id.name, name_span, modifier_span,
                                   IF has_brackets
                                   THEN Some(Span(bracket_open, a.self.pos)) ELSE None,
                                   a.args, m.modifiers,
                                   Span(modifier_start, a.self.pos),
                                   Span(start, a.self.pos))]
    IN IF id.name = <<>>
       THEN [self |-> id.self, node |-> Text(<<DOLLAR>>, Span(start, start + 1))]
       ELSE IF is_escape_function(id.name)
       THEN parse_escape_function(id.self, start, id.name, name_span)
       ELSE call(IF has_brackets THEN parse_function_arguments(id.self)
                 ELSE [self |-> id.self, args |-> None])

parse_function_call(self) ==
    LET start == self.pos
        s1 == advance(self)
        modifier_start == s1.pos
        identified(m) == function_call_named(start, modifier_start, m,
                                             parse_identifier(m.self))
    IN identified(parse_modifiers(s1))

\* the result is [self, node], node an Option
parse_forge_node(self) ==
    IF current_byte(self) = Some(BACKSLASH) THEN parse_escape_sequence(self)
    ELSE IF current_byte(self) = Some(DOLLAR) /\ ~is_escaped_at(self, self.pos)
    THEN LET some(r) == [self |-> r.self, node |-> Some(r.node)]
         IN some(IF peek_byte(self, 1) = Some(LBRACE) THEN parse_javascript(self)
                 ELSE parse_function_call(self))
    ELSE parse_text(self)

\* parse_forge_script, one iteration of the loop
forge_script_iteration(self, body) ==
    LET push(r) == [self |-> r.self,
                    body |-> IF r.node # None THEN Append(body, r.node[1]) ELSE body]
    IN push(parse_forge_node(self))

\* parse_forge_script, the loop
RECURSIVE forge_script_loop(_, _)
forge_script_loop(self, body) ==
    IF is_eof(self) THEN [self |-> self, body |-> body]
    ELSE LET again(r) == forge_script_loop(r.self, r.body)
         IN again(forge_script_iteration(self, body))

\* the result is [ast, errors]
parse_forge_script(self) ==
    LET start == self.pos
        program(r) ==
            [ast |-> Program(r.body, Span(start, Len(self.source))),
             errors |-> r.self.errors]
    IN program(forge_script_loop(self, <<>>))

\* parse, one iteration of the loop on a block start at block_start
parse_block(self, body, block_start) ==
    LET body1 == IF block_start > self.pos
                 THEN Append(body, Text(slice(self, self.pos, block_start),
                                        Span(self.pos, block_start)))
                 ELSE body
        content_start == block_start + 7
        s1 == [self EXCEPT !.pos = content_start]
        found == find_code_block_end(s1)
    IN IF found # None
       THEN LET block_end == found[1]
                extend(inner) ==
                    [self |-> [s1 EXCEPT !.pos = block_end + 1,
                                         !.errors = @ \o errors_offset(inner.errors,
                                                                       content_start)],
                     body |-> body1 \o offset_spans(inner.ast, content_start).body]
            IN IF block_end - content_start > 0
               THEN extend(parse_forge_script(
                        inner_parser(s1, slice(s1, content_start, block_end))))
               ELSE [self |-> [s1 EXCEPT !.pos = block_end + 1], body |-> body1]
       ELSE [self |-> [push_error(s1, s1.config.validate_brackets,
                                  syntax("Unclosed code block",
                                         Span(block_start, Len(s1.source))))
                          EXCEPT !.pos = Len(s1.source)],
             body |-> Append(body1, Text(slice(s1, block_start, Len(s1.source)),
                                         Span(block_start, Len(s1.source))))]

\* the body after the `else` branch of the loop: the rest is text
rest_is_text(self, body) ==
    IF self.pos < Len(self.source)
    THEN Append(body, Text(slice(self, self.pos, Len(self.source)),
                           Span(self.pos, Len(self.source))))
    ELSE body

\* parse, one iteration of the loop, without `self.pos = self.source.len()`
\* when no block is left
parse_iteration_rest_stays(self, body) ==
    LET block_start == find_code_block_start(self)
    IN IF block_start # None
       THEN parse_block(self, body, block_start[1])
       ELSE [self |-> self, body |-> rest_is_text(self, body)]

\* parse, one iteration of the loop
parse_iteration(self, body) ==
    LET block_start == find_code_block_start(self)
    IN IF block_start # None
       THEN parse_block(self, body, block_start[1])
       ELSE [self |-> [self EXCEPT !.pos = Len(self.source)],
             body |-> rest_is_text(self, body)]

\* parse, the loop
RECURSIVE parse_loop(_, _)
parse_loop(self, body) ==
    IF is_eof(self) THEN [self |-> self, body |-> body]
    ELSE LET next_block(r) == parse_loop(r.self, r.body)
         IN next_block(parse_iteration(self, body))

\* Parser::parse; the result is [ast, errors]
parse(self) ==
    LET start == self.pos
        program(r) ==
            [ast |-> Program(r.body, Span(start, Len(self.source))),
             errors |-> r.self.errors]
    IN program(parse_loop(self, <<>>))

\* no parse is being followed
NotStarted ==
    [phase |-> "idle", self |-> with_config(<<>>, config_default), body |-> <<>>,
     iterations |-> 0]

----------------------------------------------------------------------------
(* Parser inputs *)

RECURSIVE Flatten(_)
Flatten(ss) == IF ss = <<>> THEN <<>> ELSE Head(ss) \o Flatten(Tail(ss))

\* `$`, `a`, `[`, `]`, `;` and U+00E9, whose UTF-8 form is two bytes
SpanChars == {<<DOLLAR>>, <<97>>, <<LBRACKET>>, <<RBRACKET>>, <<SEMICOLON>>, <<195, 169>>}

\* text in front of a block: none, or U+00E9 and a space
Prefixes == {<<>>, <<195, 169, 32>>}

\* a block that is closed, and one that is not
Closers == {<<BACKTICK>>, <<>>}

Contents(chars) == {Flatten(cs) : cs \in SeqsUpTo(chars, MaxContentLen)}

\* one `code: ` block around every content
BlockSources(chars) ==
    {pre \o CODE_OPEN \o content \o close :
        pre \in Prefixes, content \in Contents(chars), close \in Closers}

\* test_code_block_span_accuracy: prefix code: `$func[]` suffix
span_accuracy_input ==
    <<112, 114, 101, 102, 105, 120, 32, 99, 111, 100, 101, 58, 32, 96, 36,
      102, 117, 110, 99, 91, 93, 96, 32, 115, 117, 102, 102, 105, 120>>

\* scenario 2: code: `$get[coins]`
get_coins_input ==
    <<99, 111, 100, 101, 58, 32, 96, 36, 103, 101, 116, 91, 99, 111, 105,
      110, 115, 93, 96>>

\* a call nested in an argument after U+00E9 (bytes 195, 169): code: `$a[..$a]`
nested_after_multibyte_input ==
    <<99, 111, 100, 101, 58, 32, 96, 36, 97, 91, 195, 169, 36, 97, 93, 96>>

\* test_escaped_dollar_is_literal: two backslashes, then $userName: code: `\\$userName`
escaped_dollar_input ==
    <<99, 111, 100, 101, 58, 32, 96, 92, 92, 36, 117, 115, 101, 114, 78, 97,
      109, 101, 96>>

\* test_lone_backslash_then_function: one backslash, then $func: code: `\$func`
lone_backslash_input ==
    <<99, 111, 100, 101, 58, 32, 96, 92, 36, 102, 117, 110, 99, 96>>

\* test_bare_bracket_in_args_no_error: code: `$ban[user; 1m; []`
bare_bracket_input ==
    <<99, 111, 100, 101, 58, 32, 96, 36, 98, 97, 110, 91, 117, 115, 101, 114,
      59, 32, 49, 109, 59, 32, 91, 93, 96>>

\* test_modifiers: code: `$!silent[]`
modifiers_input ==
    <<99, 111, 100, 101, 58, 32, 96, 36, 33, 115, 105, 108, 101, 110, 116,
      91, 93, 96>>

\* scenario 6: two backslashes before each inner semicolon: code: `$let[agent;Whee (iPhone\\; iOS 16.2\\; en_US)]`
escaped_semicolon_input ==
    <<99, 111, 100, 101, 58, 32, 96, 36, 108, 101, 116, 91, 97, 103, 101,
      110, 116, 59, 87, 104, 101, 101, 32, 40, 105, 80, 104, 111, 110, 101,
      92, 92, 59, 32, 105, 79, 83, 32, 49, 54, 46, 50, 92, 92, 59, 32, 101,
      110, 95, 85, 83, 41, 93, 96>>

\* test_unclosed_bracket: code: `$get[unclosed`
unclosed_bracket_input ==
    <<99, 111, 100, 101, 58, 32, 96, 36, 103, 101, 116, 91, 117, 110, 99,
      108, 111, 115, 101, 100, 96>>

\* test_unclosed_block: code: `$foo
unclosed_block_input ==
    <<99, 111, 100, 101, 58, 32, 96, 36, 102, 111, 111>>

\* test_escaped_backtick_does_not_close_block: code: `hello\`still_inside`
escaped_backtick_input ==
    <<99, 111, 100, 101, 58, 32, 96, 104, 101, 108, 108, 111, 92, 96, 115,
      116, 105, 108, 108, 95, 105, 110, 115, 105, 100, 101, 96>>

\* a call after two backslashes, inside an argument list: code: `$a[\\$a[;]]`
escaped_nested_input ==
    <<99, 111, 100, 101, 58, 32, 96, 36, 97, 91, 92, 92, 36, 97, 91, 59, 93,
      93, 96>>

\* test_empty_and_whitespace_args: code: `$func[; ;last]`
empty_and_whitespace_input ==
    <<99, 111, 100, 101, 58, 32, 96, 36, 102, 117, 110, 99, 91, 59, 32, 59,
      108, 97, 115, 116, 93, 96>>

\* `$` and a modifier with no name after it: code: `$!;a`
modifier_no_name_input ==
    <<99, 111, 100, 101, 58, 32, 96, 36, 33, 59, 97, 96>>

Scenarios ==
    {escaped_nested_input,
     empty_and_whitespace_input,
     modifier_no_name_input,
     span_accuracy_input,
     get_coins_input,
     nested_after_multibyte_input,
     escaped_dollar_input,
     lone_backslash_input,
     bare_bracket_input,
     modifiers_input,
     escaped_semicolon_input,
     unclosed_bracket_input,
     unclosed_block_input,
     escaped_backtick_input}

\* a backslash, a backtick, a call with its opening bracket, `]`, `;` and `a`
EscapeChars ==
    {<<BACKSLASH>>, <<BACKTICK>>, <<DOLLAR, 97, LBRACKET>>, <<RBRACKET>>,
     <<SEMICOLON>>, <<97>>}

EscapeContents == {Flatten(cs) : cs \in SeqsUpTo(EscapeChars, MaxEscapeLen)}

EscapeSources ==
    {CODE_OPEN \o content \o close : content \in EscapeContents, close \in Closers}

ParseSources == BlockSources(SpanChars) \cup EscapeSources \cup Scenarios

\* `$`, a call with its opening bracket, `${`, a backslash, a backtick, `]`
\* and the opening of a block
StepChars ==
    {<<DOLLAR>>, <<DOLLAR, 97, LBRACKET>>, <<DOLLAR, LBRACE>>, <<BACKSLASH>>,
     <<BACKTICK>>, <<RBRACKET>>, CODE_OPEN}

StepSources == {Flatten(cs) : cs \in SeqsUpTo(StepChars, MaxStepLen)}

----------------------------------------------------------------------------
(* The manager, called from one thread *)

Reg == Registry(trie, enums, events)

Call(op, items, cache, result, pre) ==
    [op |-> op, items |-> items, cache |-> cache, result |-> result, pre |-> pre]

NoResult == [ok |-> TRUE, err |-> "", count |-> 0]

InitManager ==
    /\ trie = EmptyTrie
    /\ enums = NoEnums
    /\ events = NoEvents
    /\ exported = None
    /\ last = Call("new", <<>>, None, NoResult, Registry(EmptyTrie, NoEnums, NoEvents))
    /\ nrec = 0
    /\ ncalls = 0
    /\ lock = Unlocked
    /\ pc = [t \in Threads |-> "idle"]
    /\ wcall = [w \in Writers |-> None]
    /\ wrem = [w \in Writers |-> <<>>]
    /\ robs = [r \in Readers |-> NoLookup]
    /\ committed = EmptyTrie
    /\ wlog = <<>>

Init ==
    /\ InitManager
    /\ source = <<>>
    /\ config = config_default
    /\ outcome = None
    /\ run = NotStarted

AddCustomFunctionsFromJson ==
    \E items \in SeqsUpTo(RawPool, MaxBatch), wellformed \in BOOLEAN :
        /\ ncalls < MaxCalls
        /\ nrec + Len(items) <= MaxRecords
        /\ wellformed \/ items = <<>>
        /\ LET r == add_custom_functions_from_json(trie,
                        [wellformed |-> wellformed, items |-> items])
           IN /\ trie' = r.trie
              /\ last' = Call("add_custom_functions_from_json", items, None, r.result, Reg)
        /\ nrec' = nrec + Len(items)
        /\ ncalls' = ncalls + 1
        /\ UNCHANGED <<enums, events, exported>>
        /\ UNCHANGED <<concvars, parsevars>>

\* fetch_all over one source that has a functions_url only
FetchAll ==
    \E items \in SeqsUpTo(RawPool, MaxBatch) :
        /\ ncalls < MaxCalls
        /\ nrec + Len(items) <= MaxRecords
        /\ LET functions == fetch_functions(items, "ext")
           IN /\ trie' = add_functions(trie, functions)
              /\ last' = Call("fetch_all", items, None,
                              [ok |-> TRUE, err |-> "", count |-> Len(functions)], Reg)
        /\ nrec' = nrec + Len(items)
        /\ ncalls' = ncalls + 1
        /\ UNCHANGED <<enums, events, exported>>
        /\ UNCHANGED <<concvars, parsevars>>

DoImport(op, cache) ==
    LET r == import_cache(Reg, cache)
    IN /\ trie' = r.reg.trie
       /\ enums' = r.reg.enums
       /\ events' = r.reg.events
       /\ last' = Call(op, cache.functions, Some(cache), r.result, Reg)

\* import_cache of a cache the caller built
ImportCache ==
    \E functions \in SeqsUpTo(FuncPool, MaxBatch), version \in {VERSION, VERSION + 1} :
        /\ ncalls < MaxCalls
        /\ nrec + Len(functions) <= MaxRecords
        /\ DoImport("import_cache",
                    MetadataCache(functions, SomeEnums, <<SomeEvent>>, version))
        /\ nrec' = nrec + Len(functions)
        /\ ncalls' = ncalls + 1
        /\ UNCHANGED exported
        /\ UNCHANGED <<concvars, parsevars>>

ExportCache ==
    \E c \in export_cache(Reg) :
        /\ ncalls < MaxCalls
        /\ exported' = Some([cache |-> c, from |-> Reg])
        /\ last' = Call("export_cache", <<>>, Some(c), NoResult, Reg)
        /\ ncalls' = ncalls + 1
        /\ UNCHANGED <<trie, enums, events, nrec>>
        /\ UNCHANGED <<concvars, parsevars>>

\* import_cache(export_cache(r)) for an earlier r
ImportExported ==
    /\ ncalls < MaxCalls
    /\ exported # None
    /\ DoImport("import_exported", exported[1].cache)
    /\ ncalls' = ncalls + 1
    /\ UNCHANGED <<exported, nrec>>
    /\ UNCHANGED <<concvars, parsevars>>

Clear ==
    /\ ncalls < MaxCalls
    /\ LET c == manager_clear(Reg)
       IN /\ trie' = c.trie
          /\ enums' = c.enums
          /\ events' = c.events
    /\ last' = Call("clear", <<>>, None, NoResult, Reg)
    /\ ncalls' = ncalls + 1
    /\ UNCHANGED <<exported, nrec>>
    /\ UNCHANGED <<concvars, parsevars>>

\* ingestion and lookups
Next ==
    \/ AddCustomFunctionsFromJson
    \/ FetchAll
    \/ ImportCache
    \/ Clear

Spec == Init /\ [][Next]_vars

\* ingestion and the cache codec
NextCache ==
    \/ AddCustomFunctionsFromJson
    \/ FetchAll
    \/ ImportCache
    \/ ExportCache
    \/ ImportExported

SpecCache == Init /\ [][NextCache]_vars

----------------------------------------------------------------------------
(* A FunctionTrie used directly *)

\* keys handed to insert: empty, without `$`, differing in case only, one a
\* prefix of another, one with a letter whose uppercase form is two letters
TrieKeys ==
    {<<>>, <<"s">>, <<"$", "s">>, <<"$", "S">>, <<"$", "s", "s">>, <<"$", "sz">>}

\* trie.insert(key, Arc::new(func)) with func.name = key
TrieInsert ==
    \E key \in TrieKeys, payload \in {Plain, Categorised} :
        /\ nrec < MaxInserts
        /\ trie' = insert(trie, key, from_value(Raw(key, None, payload))[1])
        /\ nrec' = nrec + 1
        /\ UNCHANGED <<enums, events, exported, last, ncalls>>
        /\ UNCHANGED <<concvars, parsevars>>

\* trie.clear()
TrieClear ==
    /\ trie # EmptyTrie
    /\ trie' = trie_clear(trie)
    /\ UNCHANGED <<enums, events, exported, last, nrec, ncalls>>
    /\ UNCHANGED <<concvars, parsevars>>

NextTrie ==
    \/ TrieInsert
    \/ TrieClear

SpecTrie == Init /\ [][NextTrie]_vars

----------------------------------------------------------------------------
(* The manager, shared by threads *)

regvars == <<enums, events, exported, last, nrec, ncalls>>

\* a writer thread enters add_functions / add_custom_functions_from_json
W_Call(w) ==
    \E items \in ConcBatches(WriterOp[w]) :
        /\ pc[w] = "idle"
        /\ wcall' = [wcall EXCEPT ![w] = Some([op |-> WriterOp[w], items |-> items])]
        /\ wrem' = [wrem EXCEPT ![w] = calls_of([op |-> WriterOp[w], items |-> items])]
        /\ pc' = [pc EXCEPT ![w] = "write"]
        /\ UNCHANGED <<trie, lock, robs, committed, wlog>>
        /\ UNCHANGED <<regvars, parsevars>>

\* self.trie.write().unwrap()
W_Lock(w) ==
    /\ pc[w] = "write"
    /\ write_available(lock)
    /\ lock' = [lock EXCEPT !.writer = Some(w)]
    /\ pc' = [pc EXCEPT ![w] = "insert"]
    /\ UNCHANGED <<trie, wcall, wrem, robs, committed, wlog>>
    /\ UNCHANGED <<regvars, parsevars>>

\* one trie.insert of the loop
W_Insert(w) ==
    /\ pc[w] = "insert"
    /\ lock.writer = Some(w)
    /\ wrem[w] # <<>>
    /\ trie' = insert(trie, Head(wrem[w]).key, Head(wrem[w]).func)
    /\ wlog' = Append(wlog, w)
    /\ wrem' = [wrem EXCEPT ![w] = Tail(wrem[w])]
    /\ IF guard_scope = "function" \/ Tail(wrem[w]) = <<>>
       THEN UNCHANGED <<lock, pc>>
       ELSE /\ lock' = [lock EXCEPT !.writer = None]
            /\ pc' = [pc EXCEPT ![w] = "write"]
    /\ UNCHANGED <<wcall, robs, committed>>
    /\ UNCHANGED <<regvars, parsevars>>

\* the loop is over: the function returns and the guard is dropped
W_Return(w) ==
    /\ pc[w] = "insert"
    /\ lock.writer = Some(w)
    /\ wrem[w] = <<>>
    /\ lock' = [lock EXCEPT !.writer = None]
    /\ committed' = trie
    /\ pc' = [pc EXCEPT ![w] = "done"]
    /\ UNCHANGED <<trie, wcall, wrem, robs, wlog>>
    /\ UNCHANGED <<regvars, parsevars>>

\* a reader thread enters a lookup: self.trie.read().unwrap()
R_Lock(r) ==
    \E op \in ReaderOps, q \in ConcQueries :
        /\ pc[r] = "idle"
        /\ read_available(lock)
        /\ lock' = [lock EXCEPT !.readers = @ \cup {r}]
        /\ robs' = [robs EXCEPT ![r] = [NoLookup EXCEPT !.op = op, !.q = q]]
        /\ pc' = [pc EXCEPT ![r] = IF op \in {"get_exact", "get"} THEN "get_exact"
                                   ELSE op]
        /\ UNCHANGED <<trie, wcall, wrem, committed, wlog>>
        /\ UNCHANGED <<regvars, parsevars>>

\* trie.get_exact(name), in get_exact and as the first step of get
R_GetExact(r) ==
    /\ pc[r] = "get_exact"
    /\ LET found == get_exact(trie, robs[r].q)
       IN /\ robs' = [robs EXCEPT ![r].exact = found]
          /\ pc' = [pc EXCEPT ![r] = IF robs[r].op = "get" /\ found = None
                                     THEN "get_prefix" ELSE "return"]
    /\ UNCHANGED <<trie, lock, wcall, wrem, committed, wlog>>
    /\ UNCHANGED <<regvars, parsevars>>

\* trie.get_prefix(text), in get_prefix and as the second step of get
R_GetPrefix(r) ==
    /\ pc[r] = "get_prefix"
    /\ robs' = [robs EXCEPT ![r].prefix = get_prefix(trie, robs[r].q)]
    /\ pc' = [pc EXCEPT ![r] = "return"]
    /\ UNCHANGED <<trie, lock, wcall, wrem, committed, wlog>>
    /\ UNCHANGED <<regvars, parsevars>>

\* trie.get_completions(prefix)
R_GetCompletions(r) ==
    \E v \in get_completions(trie, robs[r].q) :
        /\ pc[r] = "get_completions"
        /\ robs' = [robs EXCEPT ![r].completions = v]
        /\ pc' = [pc EXCEPT ![r] = "return"]
        /\ UNCHANGED <<trie, lock, wcall, wrem, committed, wlog>>
        /\ UNCHANGED <<regvars, parsevars>>

\* the lookup returns and the read guard is dropped
R_Return(r) ==
    /\ pc[r] = "return"
    /\ lock' = [lock EXCEPT !.readers = @ \ {r}]
    /\ robs' = [robs EXCEPT ![r] = NoLookup]
    /\ pc' = [pc EXCEPT ![r] = "idle"]
    /\ UNCHANGED <<trie, wcall, wrem, committed, wlog>>
    /\ UNCHANGED <<regvars, parsevars>>

NextConc ==
    \/ \E w \in Writers : W_Call(w)
    \/ \E w \in Writers : W_Lock(w)
    \/ \E w \in Writers : W_Insert(w)
    \/ \E w \in Writers : W_Return(w)
    \/ \E r \in Readers : R_Lock(r)
    \/ \E r \in Readers : R_GetExact(r)
    \/ \E r \in Readers : R_GetPrefix(r)
    \/ \E r \in Readers : R_GetCompletions(r)
    \/ \E r \in Readers : R_Return(r)

SpecConc == Init /\ [][NextConc]_vars

----------------------------------------------------------------------------
(* import_cache on a manager shared by threads *)

\* the thread that calls import_cache; w1 calls add_functions
Importer == "w2"

\* import_cache is entered: a cache of another version is refused before
\* anything is touched
I_Call ==
    \E functions \in ConcBatches("add_functions"), version \in {VERSION, VERSION + 1} :
        /\ pc[Importer] = "idle"
        /\ wcall' = [wcall EXCEPT ![Importer] =
                        Some([op |-> "import_cache", items |-> functions])]
        /\ pc' = [pc EXCEPT ![Importer] = IF version = VERSION THEN "clear" ELSE "done"]
        /\ UNCHANGED <<trie, lock, wrem, robs, committed, wlog>>
        /\ UNCHANGED <<regvars, parsevars>>

\* self.clear(): the write guard is a temporary of the statement that clears
\* the trie, so it is dropped before add_functions is entered
I_Clear ==
    /\ pc[Importer] = "clear"
    /\ write_available(lock)
    /\ LET c == manager_clear(Reg)
       IN /\ trie' = c.trie
          /\ enums' = c.enums
          /\ events' = c.events
    /\ wrem' = [wrem EXCEPT ![Importer] = insert_calls(wcall[Importer][1].items)]
    /\ pc' = [pc EXCEPT ![Importer] = "write"]
    /\ UNCHANGED <<lock, wcall, robs, committed, wlog>>
    /\ UNCHANGED <<exported, last, nrec, ncalls, parsevars>>

\* add_functions returns to import_cache and its guard is dropped
I_Unlock ==
    /\ pc[Importer] = "insert"
    /\ lock.writer = Some(Importer)
    /\ wrem[Importer] = <<>>
    /\ lock' = [lock EXCEPT !.writer = None]
    /\ committed' = trie
    /\ pc' = [pc EXCEPT ![Importer] = "enums"]
    /\ UNCHANGED <<trie, wcall, wrem, robs, wlog>>
    /\ UNCHANGED <<regvars, parsevars>>

\* the enums and events loops, and Ok(())
I_Return ==
    /\ pc[Importer] = "enums"
    /\ enums' = insert_enums(enums, SomeEnums)
    /\ events' = insert_events(events, <<SomeEvent>>)
    /\ pc' = [pc EXCEPT ![Importer] = "done"]
    /\ UNCHANGED <<trie, lock, wcall, wrem, robs, committed, wlog>>
    /\ UNCHANGED <<exported, last, nrec, ncalls, parsevars>>

NextImport ==
    \/ W_Call("w1")
    \/ I_Call
    \/ I_Clear
    \/ \E w \in Writers : W_Lock(w)
    \/ \E w \in Writers : W_Insert(w)
    \/ W_Return("w1")
    \/ I_Unlock
    \/ I_Return
    \/ \E r \in Readers : R_Lock(r)
    \/ \E r \in Readers : R_GetExact(r)
    \/ \E r \in Readers : R_GetPrefix(r)
    \/ \E r \in Readers : R_GetCompletions(r)
    \/ \E r \in Readers : R_Return(r)

SpecImport == Init /\ [][NextImport]_vars

----------------------------------------------------------------------------
(* The parser *)

\* what a public parse function returned: (AstNode, Vec<ParseError>), with
\* the function's name
Returned(api, result) == [api |-> api, ast |-> result.ast, errors |-> result.errors]

InitParse ==
    /\ InitManager
    /\ source \in ParseSources
    /\ config \in {config_default, syntax_only}
    /\ outcome = None
    /\ run = NotStarted

\* parse(source) / parse_with_config(source, config)
Parse ==
    /\ outcome = None
    /\ outcome' = Some(Returned("parse_with_config", parse(with_config(source, config))))
    /\ UNCHANGED <<source, config, run>>
    /\ UNCHANGED <<trie, regvars, concvars>>

\* parse_forge_script_with_validation(source, config, metadata), metadata the
\* manager as constructed
ParseForgeScript ==
    /\ outcome = None
    /\ outcome' = Some(Returned("parse_forge_script_with_validation",
                                parse_forge_script(with_validation(source, config, Reg))))
    /\ UNCHANGED <<source, config, run>>
    /\ UNCHANGED <<trie, regvars, concvars>>

NextParse == Parse \/ ParseForgeScript

SpecParse == InitParse /\ [][NextParse]_vars

----------------------------------------------------------------------------
(* The parser with a registry attached *)

\* a call `$s`, `[`, `]`, `;` and `s`
CallChars == {<<DOLLAR, 115>>, <<LBRACKET>>, <<RBRACKET>>, <<SEMICOLON>>, <<115>>}

\* argument lists for a schema with enums: `ss`, ` s `, ` `, `s;ss`, `;ss`,
\* `ss;s;ss`, `s;$s`
EnumArguments ==
    {<<115, 115>>, <<32, 115, 32>>, <<32>>, <<115, SEMICOLON, 115, 115>>,
     <<SEMICOLON, 115, 115>>,
     <<115, 115, SEMICOLON, 115, SEMICOLON, 115, 115>>,
     <<115, SEMICOLON, DOLLAR, 115>>}

\* one closed block around every content, and around `$s[...]` for the
\* argument lists above
ValidationSources ==
    {CODE_OPEN \o Flatten(cs) \o <<BACKTICK>> : cs \in SeqsUpTo(CallChars, MaxCallLen)}
    \cup {CODE_OPEN \o <<DOLLAR, 115, LBRACKET>> \o a \o <<RBRACKET, BACKTICK>> :
              a \in EnumArguments}

\* function and bracket validation, as test_validation_brackets sets it
brackets_functions == ValidationConfig(FALSE, FALSE, TRUE, TRUE)

arguments_only == ValidationConfig(TRUE, FALSE, FALSE, FALSE)

ValidationConfigs == {strict, brackets_functions, arguments_only}

required_arg == Arg("arg1", FALSE, Some(TRUE), None, None)

optional_arg == Arg("arg2", FALSE, Some(FALSE), None, None)

\* a rest item that is marked required
rest_arg == Arg("rest", TRUE, Some(TRUE), None, None)

\* no schema, one required item, a required and an optional item, a required
\* item and a rest item
ArgSchemas ==
    {None, Some(<<required_arg>>), Some(<<required_arg, optional_arg>>),
     Some(<<required_arg, rest_arg>>)}

\* required, optional, forbidden
BracketPolicies == {Some(TRUE), Some(FALSE), None}

\* the inline enum whose one value is `s`
inline_enum == Some(<<<<115>>>>)

\* a required and an optional item with the inline enum; a required item
\* followed by a rest item, both with the inline enum; a required item that
\* names the enum Colors of the registry; one that names an enum the registry
\* does not have
EnumSchemas ==
    {<<Arg("option", FALSE, Some(TRUE), inline_enum, None)>>,
     <<Arg("option", FALSE, Some(FALSE), inline_enum, None)>>,
     <<Arg("option", FALSE, Some(TRUE), inline_enum, None),
       Arg("more", TRUE, None, inline_enum, None)>>,
     <<Arg("option", FALSE, Some(TRUE), None, Some("Colors"))>>,
     <<Arg("option", FALSE, Some(TRUE), None, Some("Shapes"))>>}

\* `$s` under its own name, `$sz` with the alias `s`, and `$s` with optional
\* brackets and a schema with enums
SignaturePool ==
    {Signature(<<"$", "s">>, None, b, a) : b \in BracketPolicies, a \in ArgSchemas}
    \cup {Signature(<<"$", "sz">>, Some(<<<<"s">>>>), b, a) :
              b \in BracketPolicies, a \in ArgSchemas}
    \cup {Signature(<<"$", "s">>, None, Some(FALSE), Some(a)) : a \in EnumSchemas}

InitValidate ==
    /\ InitManager
    /\ source \in ValidationSources
    /\ config \in ValidationConfigs
    /\ outcome = None
    /\ run = NotStarted

\* import_cache of one signature into a new manager, as create_mock_metadata
\* does
ImportSignatures ==
    \E func \in SignaturePool :
        /\ outcome = None
        /\ last.op = "new"
        /\ DoImport("import_cache", MetadataCache(<<func>>, SomeEnums, <<SomeEvent>>, VERSION))
        /\ nrec' = nrec + 1
        /\ ncalls' = ncalls + 1
        /\ UNCHANGED exported
        /\ UNCHANGED <<concvars, parsevars>>

\* Parser::with_validation(source, config, metadata).parse()
ParseWithValidation ==
    /\ outcome = None
    /\ outcome' = Some(Returned("parse_with_validation",
                                 parse(with_validation(source, config, Reg))))
    /\ UNCHANGED <<source, config, run>>
    /\ UNCHANGED <<trie, regvars, concvars>>

\* Parser::with_config(source, config).parse(): no registry is attached
ParseWithConfig ==
    /\ outcome = None
    /\ outcome' = Some(Returned("parse_with_config", parse(with_config(source, config))))
    /\ UNCHANGED <<source, config, run>>
    /\ UNCHANGED <<trie, regvars, concvars>>

NextValidate == ImportSignatures \/ ParseWithValidation \/ ParseWithConfig

SpecValidate == InitValidate /\ [][NextValidate]_vars

----------------------------------------------------------------------------
(* A parse, one loop iteration at a time *)

\* parse_with_config(source, config), called with some source and
\* configuration, up to the loop of Parser::parse
StartParse ==
    /\ run.phase = "idle"
    /\ \E source_ \in StepSources, config_ \in {config_default, syntax_only} :
           /\ source' = source_
           /\ config' = config_
           /\ run' = [phase |-> "blocks", self |-> with_config(source_, config_),
                      body |-> <<>>, iterations |-> 0]
           /\ UNCHANGED outcome
           /\ UNCHANGED <<trie, regvars, concvars>>

\* parse_forge_script_with_validation(source, config, metadata), called with
\* some source and configuration, up to the loop of Parser::parse_forge_script
StartScript ==
    /\ run.phase = "idle"
    /\ \E source_ \in StepSources, config_ \in {config_default, syntax_only} :
           /\ source' = source_
           /\ config' = config_
           /\ run' = [phase |-> "nodes", self |-> with_validation(source_, config_, Reg),
                      body |-> <<>>, iterations |-> 0]
           /\ UNCHANGED outcome
           /\ UNCHANGED <<trie, regvars, concvars>>

\* one iteration of `while !self.is_eof()` in Parser::parse
BlockIteration ==
    /\ run.phase = "blocks"
    /\ ~is_eof(run.self)
    /\ run' = [phase |-> "blocks", iterations |-> run.iterations + 1]
                  @@ parse_iteration(run.self, run.body)
    /\ UNCHANGED <<source, config, outcome>>
    /\ UNCHANGED <<trie, regvars, concvars>>

\* one iteration of `while !self.is_eof()` in Parser::parse_forge_script
NodeIteration ==
    /\ run.phase = "nodes"
    /\ ~is_eof(run.self)
    /\ run' = [phase |-> "nodes", iterations |-> run.iterations + 1]
                  @@ forge_script_iteration(run.self, run.body)
    /\ UNCHANGED <<source, config, outcome>>
    /\ UNCHANGED <<trie, regvars, concvars>>

\* the loop has ended: `(AstNode::Program { body, span }, self.errors)`
Return ==
    /\ run.phase \in {"blocks", "nodes"}
    /\ is_eof(run.self)
    /\ outcome' = Some(Returned(IF run.phase = "blocks" THEN "parse_with_config"
                                ELSE "parse_forge_script_with_validation",
                                [ast |-> Program(run.body, Span(0, Len(run.self.source))),
                                 errors |-> run.self.errors]))
    /\ run' = [run EXCEPT !.phase = "done"]
    /\ UNCHANGED <<source, config>>
    /\ UNCHANGED <<trie, regvars, concvars>>

NextSteps == StartParse \/ StartScript \/ BlockIteration \/ NodeIteration \/ Return

\* a loop is running and its test `!self.is_eof()` holds: the condition under
\* which BlockIteration \/ NodeIteration is enabled, and every such step
\* changes run.iterations
InLoop == run.phase \in {"blocks", "nodes"} /\ ~is_eof(run.self)

\* the thread that parses keeps running: weak fairness of the calls and of
\* the return, and weak fairness of the loop iterations with their enabling
\* condition written out
SpecSteps ==
    /\ Init
    /\ [][NextSteps]_vars
    /\ WF_vars(StartParse \/ StartScript \/ Return)
    /\ ([]<>(~InLoop) \/ []<><<BlockIteration \/ NodeIteration>>_vars)

----------------------------------------------------------------------------
(* Vocabulary of the properties *)

\* prepend `$` if missing
canonicalize(n) == IF Len(n) > 0 /\ n[1] = "$" THEN n ELSE <<"$">> \o n

IngestOps == {"add_custom_functions_from_json", "fetch_all", "import_cache",
              "import_exported"}

RECURSIVE ValidOf(_)
ValidOf(raw_items) ==
    IF raw_items = <<>> THEN <<>>
    ELSE (IF Head(raw_items).name = None THEN <<>> ELSE <<Head(raw_items)>>)
         \o ValidOf(Tail(raw_items))

\* the records the last call handed to the trie, as it registered them
Ingested ==
    IF ~last.result.ok THEN <<>>
    ELSE IF last.op = "add_custom_functions_from_json"
    THEN LET v == ValidOf(last.items)
         IN [i \in 1..Len(v) |-> custom_func(from_value(v[i])[1])]
    ELSE IF last.op = "fetch_all"
    THEN LET v == ValidOf(last.items)
         IN [i \in 1..Len(v) |-> [from_value(v[i])[1] EXCEPT !.extension = Some("ext")]]
    ELSE IF last.op \in {"import_cache", "import_exported"}
    THEN last.items
    ELSE <<>>

AliasesOf(f) == IF f.aliases = None THEN <<>> ELSE f.aliases[1]

\* the lowercased keys the last call wrote, in the order of the words
\* "name, then each alias" of each record; a write is [key, rec, alias]
WritesOfRecord(f) ==
    <<[key |-> to_lowercase(f.name), rec |-> f, alias |-> None]>>
    \o [j \in 1..Len(AliasesOf(f)) |->
          [key |-> to_lowercase(canonicalize(AliasesOf(f)[j])), rec |-> f,
           alias |-> Some(AliasesOf(f)[j])]]

RECURSIVE WritesOf(_)
WritesOf(fs) ==
    IF fs = <<>> THEN <<>> ELSE WritesOfRecord(Head(fs)) \o WritesOf(Tail(fs))

Writes == WritesOf(Ingested)

Registered(t) == {k \in Nodes(t) : t.value[k] # None}

\* every element of every vector get_completions can return
CompletionSet(t, q) == UNION {Range(v) : v \in get_completions(t, q)}

SameAnswers(t1, t2) ==
    \A q \in Queries :
        /\ get_exact(t1, q) = get_exact(t2, q)
        /\ get_prefix(t1, q) = get_prefix(t2, q)
        /\ CompletionSet(t1, q) = CompletionSet(t2, q)

----------------------------------------------------------------------------
\* C1: import_cache(export_cache(r)) answers get_exact, get_prefix and
\* get_completions as r did, for every query, whatever order export_cache
\* listed the functions in.
C1_RoundTrip ==
    (last.op = "import_exported" /\ last.result.ok)
        => SameAnswers(trie, exported[1].from.trie)

\* C2: after an ingestion call, for every record s it ingested and every alias
\* a of s, get_exact(canonicalize(a)) is a record named canonicalize(a) whose
\* other fields are those of s.
C2_AliasLookup ==
    \A i \in DOMAIN Writes :
        Writes[i].alias # None =>
            LET cn == canonicalize(Writes[i].alias[1])
            IN get_exact(trie, cn) = Some([Writes[i].rec EXCEPT !.name = cn])

\* C2 as amended: the same, for every alias whose lowercased key no later
\* insertion of the same call (a later alias, a later record or one of its
\* aliases) wrote again.
C2_AliasLookupLastWriter ==
    \A i \in DOMAIN Writes :
        (/\ Writes[i].alias # None
         /\ \A j \in DOMAIN Writes : j > i => Writes[j].key # Writes[i].key) =>
            LET cn == canonicalize(Writes[i].alias[1])
            IN get_exact(trie, cn) = Some([Writes[i].rec EXCEPT !.name = cn])

C2_Witness ==
    /\ last.op \in IngestOps
    /\ \E i \in DOMAIN Writes :
        /\ Writes[i].alias # None
        /\ \A j \in DOMAIN Writes : j > i => Writes[j].key # Writes[i].key
        /\ Writes[i].alias[1] # canonicalize(Writes[i].alias[1])
        /\ Writes[i].rec.category # None

\* C3: on every ingestion path a record named n is retrievable under
\* canonicalize(n): unless a later insertion of the same call wrote that key,
\* get_exact(canonicalize(n)) is the record (all fields but the name equal).
C3_CanonicalName ==
    \A i \in DOMAIN Writes :
        LET cn == canonicalize(Writes[i].rec.name)
        IN (/\ Writes[i].alias = None
            /\ \A j \in DOMAIN Writes : j > i => Writes[j].key # to_lowercase(cn)) =>
               /\ get_exact(trie, cn) # None
               /\ [get_exact(trie, cn)[1] EXCEPT !.name = cn]
                      = [Writes[i].rec EXCEPT !.name = cn]

\* C4: get_prefix(text) is the longest registered key that is a prefix of the
\* lowercased text, with its signature, and nothing when there is none.
LongestOf(S) == CHOOSE k \in S : \A m \in S : Len(m) <= Len(k)

PrefixKeys(t, text) == {k \in Registered(t) : IsPrefixOf(k, to_lowercase(text))}

C4_LongestPrefix ==
    \A q \in Queries :
        IF PrefixKeys(trie, q) = {} THEN get_prefix(trie, q) = None
        ELSE LET k == LongestOf(PrefixKeys(trie, q))
             IN get_prefix(trie, q) = Some([matched |-> k, func |-> trie.value[k][1]])

\* C4 as amended: the same over the registered keys that are not empty (a
\* record named "" is stored at the root, which get_prefix never reports).
C4_LongestNonEmptyPrefix ==
    \A q \in Queries :
        LET cands == PrefixKeys(trie, q) \ {<<>>}
        IN IF cands = {} THEN get_prefix(trie, q) = None
           ELSE LET k == LongestOf(cands)
                IN get_prefix(trie, q) = Some([matched |-> k, func |-> trie.value[k][1]])

\* `$s` and `$ss` both registered: `$ss`+X matches `$ss`, `$s`+X matches `$s`
C4_Witness ==
    /\ {<<"$", "s">>, <<"$", "s", "s">>} \subseteq Registered(trie)
    /\ get_prefix(trie, <<"$", "s", "s", "sz">>) # None
    /\ get_prefix(trie, <<"$", "s", "s", "sz">>)[1].matched = <<"$", "s", "s">>
    /\ get_prefix(trie, <<"$", "s", "sz">>)[1].matched = <<"$", "s">>
    /\ get_prefix(trie, <<"sz", "$", "s">>) = None

\* C5: for every key k, get_exact(k), get_exact(uppercase(k)) and
\* get_exact(lowercase(k)) are the same.
C5_CaseInsensitive ==
    \A k \in Queries :
        /\ get_exact(trie, k) = get_exact(trie, to_uppercase(k))
        /\ get_exact(trie, k) = get_exact(trie, to_lowercase(k))

\* C5 as amended: the same for every key k whose uppercase form lowercases
\* back to lowercase(k), which every ASCII key does.
C5_CaseInsensitiveStable ==
    \A k \in Queries :
        to_lowercase(to_uppercase(k)) = to_lowercase(k) =>
            /\ get_exact(trie, k) = get_exact(trie, to_uppercase(k))
            /\ get_exact(trie, k) = get_exact(trie, to_lowercase(k))

C5_Witness ==
    /\ get_exact(trie, <<"$", "s">>) # None
    /\ get_exact(trie, <<"$", "S">>) = get_exact(trie, <<"$", "s">>)
    /\ get_exact(trie, <<"$", "s">>)[1].name = <<"$", "S">>

\* C6: get_completions(prefix) is exactly the signatures stored under the
\* registered keys that start with the lowercased prefix, each once; empty
\* when there is none.
C6_Completions ==
    \A q \in Queries :
        LET keys == {k \in Registered(trie) : IsPrefixOf(to_lowercase(q), k)}
        IN \A v \in get_completions(trie, q) :
              /\ Range(v) = {trie.value[k][1] : k \in keys}
              /\ Len(v) = Cardinality(keys)

C6_Witness ==
    /\ Cardinality(Registered(trie)) >= 3
    /\ \E v \in get_completions(trie, <<"$", "S">>) : Len(v) = 2
    /\ get_completions(trie, <<"$", "sz">>) = {<<>>}

\* C7: import_cache of a cache whose version is not VERSION returns a Cache
\* error and leaves the trie, the enum map and the event map as they were.
C7_VersionMismatch ==
    (last.op = "import_cache" /\ last.cache[1].version # VERSION) =>
        /\ ~last.result.ok
        /\ last.result.err = "CacheError"
        /\ Reg = last.pre

C7_Witness ==
    /\ last.op = "import_cache"
    /\ last.cache[1].version # VERSION
    /\ last.cache[1].functions # <<>>
    /\ Registered(trie) # {}
    /\ enums # NoEnums
    /\ events # NoEvents

\* C8: add_custom_functions_from_json on an array with elements that fail to
\* deserialize succeeds, registers every valid element and each of its
\* aliases, registers nothing for the invalid ones, and returns the number of
\* valid elements.
C8_PartialFailure ==
    (last.op = "add_custom_functions_from_json" /\ last.result.ok) =>
        LET v == ValidOf(last.items)
        IN /\ last.result.count = Len(v)
           /\ \A i \in DOMAIN v :
                /\ get_exact(trie, canonicalize(v[i].name[1])) # None
                /\ \A a \in Range(AliasesOf(v[i])) :
                      get_exact(trie, canonicalize(a)) # None
           /\ Registered(trie) = Registered(last.pre.trie)
                                   \cup {Writes[j].key : j \in DOMAIN Writes}

C8_Witness ==
    /\ last.op = "add_custom_functions_from_json"
    /\ last.result.ok
    /\ Len(last.items) = 2
    /\ last.items[1].name = None
    /\ last.items[2].name # None
    /\ last.items[2].aliases # None
    /\ last.result.count = 1

----------------------------------------------------------------------------
(* Batches under the write lease *)

\* the whole call, as one step
apply_call(t, call) ==
    IF call.op = "add_functions" THEN add_functions(t, call.items)
    ELSE add_custom_functions_from_json(t, [wellformed |-> TRUE, items |-> call.items]).trie

RECURSIVE apply_calls(_, _)
apply_calls(t, order) ==
    IF order = <<>> THEN t
    ELSE apply_calls(apply_call(t, wcall[Head(order)][1]), Tail(order))

\* the tries that whole batches, in some order, leave behind
BatchBoundaries ==
    {apply_calls(EmptyTrie, o) :
        o \in UNION {Orderings(S) : S \in SUBSET {w \in Writers : wcall[w] # None}}}

\* what the lookup a reader is making returns on trie t
Answers(t, look) ==
    LET exact == get_exact(t, look.q)
    IN  CASE look.op = "get_exact" -> {[look EXCEPT !.exact = exact]}
          [] look.op = "get_prefix" -> {[look EXCEPT !.prefix = get_prefix(t, look.q)]}
          [] look.op = "get" ->
                {IF exact # None THEN [look EXCEPT !.exact = exact]
                 ELSE [look EXCEPT !.prefix = get_prefix(t, look.q)]}
          [] look.op = "get_completions" ->
                {[look EXCEPT !.completions = v] : v \in get_completions(t, look.q)}
          [] OTHER -> {}

\* each writer's insertions are one uninterrupted run of the log
Contiguous(log) ==
    \A i, j, k \in 1..Len(log) : i < j /\ j < k /\ log[i] = log[k] => log[j] = log[i]

\* C9: a function batch is installed under one exclusive write lease: while a
\* lookup holds the read lease the trie is the trie some sequence of whole
\* batches leaves behind, the lookup's answer is the answer on such a trie, no
\* batch is part installed, and the insertions of two concurrent batches do
\* not interleave
C9_BatchAtomic ==
    /\ \A r \in Readers :
          r \in lock.readers =>
              /\ trie = committed
              /\ \A w \in Writers :
                     \/ wcall[w] = None
                     \/ pc[w] = "done"
                     \/ wrem[w] = calls_of(wcall[w][1])
              /\ pc[r] = "return" =>
                     \E b \in BatchBoundaries :
                         robs[r] \in Answers(b, [NoLookup EXCEPT !.op = robs[r].op,
                                                                !.q = robs[r].q])
    /\ committed \in BatchBoundaries
    /\ Contiguous(wlog)

\* a lookup has answered between two batches of more than one insertion each,
\* and both batches are installed when it returns
C9_Witness ==
    /\ \A w \in Writers : wcall[w] # None /\ Len(calls_of(wcall[w][1])) >= 2
    /\ \E w \in Writers : pc[w] = "done"
    /\ \E w \in Writers : pc[w] = "write"
    /\ \E r \in Readers : pc[r] = "return" /\ robs[r].op = "get" /\ robs[r].prefix # None

----------------------------------------------------------------------------
(* Spans of the AST *)

ArgsOf(call) == IF call.args = None THEN <<>> ELSE call.args[1]

\* the nodes below a node, itself included, as a sequence
RECURSIVE Subtree(_)
Subtree(node) ==
    <<node>> \o
    (IF node.kind = "Program"
     THEN Flatten([i \in 1..Len(node.body) |-> Subtree(node.body[i])])
     ELSE IF node.kind = "FunctionCall"
     THEN Flatten([i \in 1..Len(ArgsOf(node)) |->
                     Flatten([j \in 1..Len(ArgsOf(node)[i].parts) |->
                                Subtree(ArgsOf(node)[i].parts[j])])])
     ELSE <<>>)

OptSpan(o) == IF o = None THEN {} ELSE {o[1]}

\* every span a node carries itself
OwnSpans(node) ==
    {node.span} \cup
    (IF node.kind = "FunctionCall"
     THEN {node.name_span, node.full_span}
          \cup OptSpan(node.modifier_span) \cup OptSpan(node.args_span)
          \cup OptSpan(node.modifiers.span)
          \cup {ArgsOf(node)[i].span : i \in 1..Len(ArgsOf(node))}
     ELSE {})

Within(inner, outer) == outer.start <= inner.start /\ inner.end <= outer.end

\* C10: in the AST parse returns, every span has start <= end <= len(source),
\* every argument's span and the span of every node inside an argument lie
\* within the span of the enclosing FunctionCall, and every top-level node's
\* span lies within the Program span.
C10_SpansNest ==
    outcome # None =>
        LET ast == outcome[1].ast
            nodes == Subtree(ast)
        IN /\ \A k \in 1..Len(nodes) : \A s \in OwnSpans(nodes[k]) :
                  s.start <= s.end /\ s.end <= Len(source)
           /\ \A k \in 1..Len(nodes) :
                  nodes[k].kind = "FunctionCall" =>
                      \A i \in 1..Len(ArgsOf(nodes[k])) :
                          /\ Within(ArgsOf(nodes[k])[i].span, nodes[k].span)
                          /\ \A j \in 1..Len(ArgsOf(nodes[k])[i].parts) :
                                LET inside == Subtree(ArgsOf(nodes[k])[i].parts[j])
                                IN \A m \in 1..Len(inside) :
                                      Within(inside[m].span, nodes[k].span)
           /\ \A i \in 1..Len(ast.body) : Within(ast.body[i].span, ast.span)

----------------------------------------------------------------------------
(* Call sites *)

\* the AST of a parse of a host source with blocks
BlockAst == IF outcome # None /\ outcome[1].api # "parse_forge_script_with_validation"
            THEN Subtree(outcome[1].ast) ELSE <<>>

\* the FunctionCall nodes of a parse of a host source, at every depth
Calls == {BlockAst[k] : k \in {m \in 1..Len(BlockAst) : BlockAst[m].kind = "FunctionCall"}}

\* the call's brackets are matched (it has arguments) or absent
BracketsMatchedOrAbsent(call) == call.args # None \/ call.args_span = None

\* where the call's name ends: at its bracket, or at the end of the call
NameEnd(call) == IF call.args_span = None THEN call.span.end ELSE call.args_span[1].start

\* source[span] reads `$`, modifiers, the name, and the bracket pair if any
IsCallText(call) ==
    /\ 0 <= call.span.start /\ call.span.start < call.span.end
    /\ call.span.end <= Len(source)
    /\ B(source, call.span.start) = DOLLAR
    /\ NameEnd(call) - Len(call.name) > call.span.start
    /\ str_slice(source, NameEnd(call) - Len(call.name), NameEnd(call)) = call.name
    /\ call.args_span # None =>
          /\ B(source, call.args_span[1].start) = LBRACKET
          /\ call.args_span[1].end = call.span.end
          /\ B(source, call.span.end - 1) = RBRACKET

\* C11: for every FunctionCall parse returns, at the top level of a block or
\* nested at any depth inside arguments, whose brackets are matched or absent,
\* source[span] is the call text beginning with `$` and
\* full_span = [span.start + 1, span.end).
C11_CallSpans ==
    \A call \in Calls :
        BracketsMatchedOrAbsent(call) =>
            /\ IsCallText(call)
            /\ call.full_span = Span(call.span.start + 1, call.span.end)

----------------------------------------------------------------------------
(* Escape sequences *)

\* the top-level nodes of the embedded-language pass: the whole body when
\* the source was parsed as a script, and the nodes inside the first block
\* when a host source that opens with a closed block was parsed
ScriptNodes ==
    IF outcome = None THEN {}
    ELSE LET body == outcome[1].ast.body
             close == scan_code_block_end(with_config(source, config), 7)
         IN IF outcome[1].api = "parse_forge_script_with_validation"
            THEN {body[k] : k \in 1..Len(body)}
            ELSE IF Len(source) >= 7 /\ SubSeq(source, 1, 7) = CODE_OPEN /\ close # None
            THEN {body[k] : k \in {m \in 1..Len(body) :
                                     7 <= body[m].span.start
                                     /\ body[m].span.start < close[1]}}
            ELSE {}

\* the nodes that start on a backslash
EscapeNodes == {n \in ScriptNodes : B(source, n.span.start) = BACKSLASH}

EscapedSpecials == {DOLLAR, LBRACKET, RBRACKET, SEMICOLON, BACKTICK}

Parsed == IF outcome # None /\ outcome[1].api = "parse_with_config"
          THEN Some(outcome[1]) ELSE None

Body == IF Parsed = None THEN <<>> ELSE Parsed[1].ast.body

\* the byte occurs in the text of some Text node of the body
TextHolds(body, b) ==
    \E k \in 1..Len(body) : body[k].kind = "Text" /\ b \in Range(body[k].content)

\* C13: inside a block, one backslash right before `$func` is a Text node
\* with content `\` followed by the FunctionCall `func` (the body has exactly
\* these two nodes), and two backslashes right before `$name` suppress the
\* call: the body has no FunctionCall and its text holds a literal `$`.
C13_DollarEscaping ==
    Parsed # None =>
        /\ source = lone_backslash_input =>
              /\ Len(Body) = 2
              /\ Body[1].kind = "Text" /\ Body[1].content = <<BACKSLASH>>
              /\ Body[2].kind = "FunctionCall" /\ Body[2].name = <<102, 117, 110, 99>>
        /\ source = escaped_dollar_input =>
              /\ \A k \in 1..Len(Body) : Body[k].kind # "FunctionCall"
              /\ TextHolds(Body, DOLLAR)

----------------------------------------------------------------------------
(* Argument lists *)

\* C14: a bare `[` in an argument list is literal text and needs no `]`:
\* the block `$ban[user; 1m; []` gives a FunctionCall `ban` with exactly three
\* arguments, the third holding `[`, and no diagnostic, without validation and
\* with syntax-only validation.
C14_BareBracket ==
    (Parsed # None /\ source = bare_bracket_input) =>
        /\ Parsed[1].errors = <<>>
        /\ Len(Body) >= 1
        /\ Body[1].kind = "FunctionCall"
        /\ Body[1].name = <<98, 97, 110>>
        /\ Body[1].args # None
        /\ Len(Body[1].args[1]) = 3
        /\ as_text(Body[1].args[1][3]) # None
        /\ LBRACKET \in Range(as_text(Body[1].args[1][3])[1])

\* the call's bracket pair is matched and has nothing inside
EmptyBrackets(call) ==
    /\ call.args # None
    /\ call.args_span # None
    /\ call.args_span[1].end - call.args_span[1].start = 2

IsEmptyArgument(arg) ==
    Len(arg.parts) = 1 /\ arg.parts[1].kind = "Text" /\ arg.parts[1].content = <<>>

\* C15 as stated: a call with an empty bracket pair has exactly one, empty,
\* argument: the block `$!silent[]` gives a FunctionCall with silent = true,
\* negated = false and one argument whose single child is an empty Text.
C15_OneEmptyArgument ==
    (Parsed # None /\ source = modifiers_input) =>
        /\ Len(Body) = 1
        /\ Body[1].kind = "FunctionCall"
        /\ Body[1].modifiers.silent /\ ~Body[1].modifiers.negated
        /\ Body[1].args # None
        /\ Len(Body[1].args[1]) = 1
        /\ IsEmptyArgument(Body[1].args[1][1])

\* C15, amended: a call with an empty bracket pair has an argument list that
\* is present and empty; the block `$!silent[]` gives a FunctionCall with
\* silent = true, negated = false and zero arguments.  An argument without
\* text, which a `;` next to a bracket or to another `;` leaves, has a single
\* empty Text child.
C15_NoArgument ==
    /\ (Parsed # None /\ source = modifiers_input) =>
          /\ Len(Body) = 1
          /\ Body[1].kind = "FunctionCall"
          /\ Body[1].modifiers.silent /\ ~Body[1].modifiers.negated
          /\ Body[1].args = Some(<<>>)
    /\ \A call \in Calls :
          /\ EmptyBrackets(call) => call.args = Some(<<>>)
          /\ \A i \in 1..Len(ArgsOf(call)) :
                ArgsOf(call)[i].span.start = ArgsOf(call)[i].span.end =>
                    IsEmptyArgument(ArgsOf(call)[i])

\* `$!silent[]` was parsed, and so was a call whose brackets hold one `;`
C15_Witness ==
    \/ Parsed # None /\ source = modifiers_input
    \/ \E call \in Calls :
          Len(ArgsOf(call)) = 2 /\ \A i \in 1..2 : IsEmptyArgument(ArgsOf(call)[i])

\* C16: in an argument list two backslashes followed by `;` do not split the
\* argument: `$let[agent;Whee (iPhone\\; iOS 16.2\\; en_US)]` parses with no
\* diagnostic into exactly two arguments, the first `agent` and the second
\* holding the literal `;` characters.
C16_EscapedSemicolon ==
    (Parsed # None /\ source = escaped_semicolon_input) =>
        /\ Parsed[1].errors = <<>>
        /\ Len(Body) = 1
        /\ Body[1].kind = "FunctionCall"
        /\ Body[1].name = <<108, 101, 116>>
        /\ Body[1].args # None
        /\ Len(Body[1].args[1]) = 2
        /\ as_text(Body[1].args[1][1]) = Some(<<97, 103, 101, 110, 116>>)
        /\ as_text(Body[1].args[1][2]) # None
        /\ SEMICOLON \in Range(as_text(Body[1].args[1][2])[1])

----------------------------------------------------------------------------
(* Unclosed brackets and blocks *)

Errors == IF Parsed = None THEN <<>> ELSE Parsed[1].errors

\* the call has a `[` after its name and no matching `]`
Unmatched(call) == call.args_span # None /\ call.args = None

\* the Syntax diagnostics on the call's `[`
BracketDiagnostics(call) ==
    {i \in 1..Len(Errors) :
        /\ Errors[i].kind = "Syntax"
        /\ Errors[i].span.start = call.args_span[1].start}

unmatched_a_input == CODE_OPEN \o <<DOLLAR, 97, LBRACKET, BACKTICK>>

\* C17: a call whose `[` has no matching `]` is still produced, with
\* args = none; exactly one Syntax diagnostic is emitted for it when bracket
\* validation is on and none when it is off.  The block `$a[` gives one
\* FunctionCall `a` with args none, one Syntax diagnostic with bracket
\* validation on and no diagnostic with it off.
C17_UnmatchedBracket ==
    Parsed # None =>
        /\ \A call \in Calls :
              Unmatched(call) =>
                  Cardinality(BracketDiagnostics(call))
                      = IF config.validate_brackets THEN 1 ELSE 0
        /\ source = unmatched_a_input =>
              /\ Len(Body) = 1
              /\ Body[1].kind = "FunctionCall"
              /\ Body[1].name = <<97>>
              /\ Body[1].args = None
              /\ Len(Errors) = IF config.validate_brackets THEN 1 ELSE 0
              /\ \A i \in 1..Len(Errors) : Errors[i].kind = "Syntax"
        /\ (~config.validate_brackets /\ ~config.validate_functions) => Errors = <<>>

\* the block `$a[` was parsed with bracket validation on
C17_Witness ==
    /\ Parsed # None
    /\ source = unmatched_a_input
    /\ config.validate_brackets
    /\ \E call \in Calls : Unmatched(call)

\* the first accepted block start of the source
FirstBlock == find_code_block_start(with_config(source, config))

\* the backticks after the first block start
LaterBackticks ==
    {p \in (FirstBlock[1] + 7)..(Len(source) - 1) : B(source, p) = BACKTICK}

\* no unescaped backtick follows the first block start
Unclosed == \A p \in LaterBackticks : is_escaped(source, p)

\* C18: when the first accepted block start has no later unescaped backtick,
\* exactly one Syntax diagnostic "Unclosed code block" is emitted iff bracket
\* validation is on, the input from the block start on is one Text node
\* holding it verbatim, nothing in it is parsed as the embedded language, and
\* it is the last node; a block that has an unescaped backtick after escaped
\* ones is not reported as unclosed.
C18_UnclosedBlock ==
    (Parsed # None /\ FirstBlock # None) =>
        LET start == FirstBlock[1]
            end == Len(source)
        IN /\ Unclosed =>
                 /\ Len(Errors) = IF config.validate_brackets THEN 1 ELSE 0
                 /\ \A i \in 1..Len(Errors) :
                       /\ Errors[i].kind = "Syntax"
                       /\ Errors[i].message = "Unclosed code block"
                 /\ Body = (IF start > 0
                            THEN <<Text(str_slice(source, 0, start), Span(0, start))>>
                            ELSE <<>>)
                           \o <<Text(str_slice(source, start, end), Span(start, end))>>
           /\ ~Unclosed =>
                 \A i \in 1..Len(Errors) :
                     ~(Errors[i].message = "Unclosed code block"
                       /\ Errors[i].span.start = start)

\* a block that holds an escaped backtick and is never closed was parsed with
\* bracket validation on
C18_Witness ==
    /\ Parsed # None
    /\ FirstBlock # None
    /\ Unclosed
    /\ LaterBackticks # {}
    /\ config.validate_brackets

----------------------------------------------------------------------------
(* Validation against the registry *)

\* what Parser::with_validation(...).parse() returned, if it has run
Validated == IF outcome # None /\ outcome[1].api = "parse_with_validation"
             THEN Some(outcome[1]) ELSE None

Diagnostics == IF Validated = None THEN <<>> ELSE Validated[1].errors

\* the signature the registry resolves the call to
Resolved(call) == get(trie, <<"$">> \o str_chars(call.name))

\* the diagnostics of a kind attached to the call's name span
DiagnosticsAt(call, kind) ==
    {i \in 1..Len(Diagnostics) :
        Diagnostics[i].kind = kind /\ Diagnostics[i].span = call.name_span}

\* a `[` follows the call's name
HasBrackets(call) == call.args_span # None

BracketMisuse(func, call) ==
    \/ func.brackets = Some(TRUE) /\ ~HasBrackets(call)
    \/ func.brackets = None /\ HasBrackets(call)

alias_call_input == CODE_OPEN \o <<DOLLAR, 115, BACKTICK>>

\* the registry holds `$sz`, brackets required, under its alias `s`
AliasRequired ==
    /\ get_exact(trie, <<"$", "sz">>) # None
    /\ get_exact(trie, <<"$", "sz">>)[1].aliases = Some(<<<<"s">>>>)
    /\ get_exact(trie, <<"$", "sz">>)[1].brackets = Some(TRUE)
    /\ get_exact(trie, <<"$", "s">>) # None

\* C19: with bracket validation on and a registry attached, a call resolved
\* to a signature gets exactly one BracketUsage diagnostic, on its name span,
\* iff the signature requires brackets and the call has none or the signature
\* forbids brackets and the call has them; an optional policy gives none, and
\* so does bracket validation off.  A call by an alias is treated alike: with
\* a signature that requires brackets and has the alias `s`, the block `$s`
\* under function and bracket validation gives one BracketUsage diagnostic.
C19_BracketPolicy ==
    Validated # None =>
        /\ \A call \in Calls :
              Resolved(call) # None =>
                  Cardinality(DiagnosticsAt(call, "BracketUsage"))
                      = IF config.validate_brackets
                           /\ BracketMisuse(Resolved(call)[1], call)
                        THEN 1 ELSE 0
        /\ \A i \in 1..Len(Diagnostics) :
              Diagnostics[i].kind = "BracketUsage" =>
                  \E call \in Calls : Diagnostics[i].span = call.name_span
        /\ (source = alias_call_input /\ AliasRequired /\ config = brackets_functions) =>
              /\ Len(Diagnostics) = 1
              /\ Diagnostics[1].kind = "BracketUsage"
              /\ Diagnostics[1].span = Validated[1].ast.body[1].name_span

\* `$s` was validated against a registry that knows `s` as an alias of a
\* signature that requires brackets
C19_Witness ==
    /\ Validated # None
    /\ source = alias_call_input
    /\ AliasRequired
    /\ config = brackets_functions
    /\ Len(Diagnostics) = 1

\* the number of schema items that are required and not rest
RequiredCount(items) ==
    Cardinality({k \in 1..Len(items) : items[k].required = Some(TRUE) /\ ~items[k].rest})

HasRest(items) == \E k \in 1..Len(items) : items[k].rest

\* the number of provided arguments is out of the schema's range
CountMismatch(items, provided) ==
    \/ provided < RequiredCount(items)
    \/ ~HasRest(items) /\ provided > Len(items)

\* the calls resolved to a signature that has an argument schema
SchemaCalls == {call \in Calls : Resolved(call) # None /\ Resolved(call)[1].args # None}

\* C20 as stated: with argument validation on, every call resolved to a
\* signature with an argument schema gets an ArgumentCount diagnostic iff the
\* number of provided arguments is below the required count or, without a
\* rest item, above the number of schema items; a call gets at most one.
C20_ArgumentCount ==
    (Validated # None /\ config.validate_arguments) =>
        \A call \in SchemaCalls :
            Cardinality(DiagnosticsAt(call, "ArgumentCount"))
                = IF CountMismatch(Resolved(call)[1].args[1], Len(ArgsOf(call)))
                  THEN 1 ELSE 0

\* C20, amended: with argument validation on, every call that has a matched
\* bracket pair and is resolved to a signature with an argument schema gets
\* an ArgumentCount diagnostic iff the number of provided arguments is below
\* the required count or, without a rest item, above the number of schema
\* items; a call gets at most one, and a call without brackets or with an
\* unmatched `[` gets none, as does every call with argument validation off.
C20_ArgumentCountBracketed ==
    Validated # None =>
        \A call \in SchemaCalls :
            Cardinality(DiagnosticsAt(call, "ArgumentCount"))
                = IF /\ config.validate_arguments
                     /\ call.args # None
                     /\ CountMismatch(Resolved(call)[1].args[1], Len(ArgsOf(call)))
                  THEN 1 ELSE 0

\* a call with more arguments than its schema, which has no rest item, has
\* items was validated and reported
C20_Witness ==
    /\ Validated # None
    /\ config.validate_arguments
    /\ \E call \in SchemaCalls :
          /\ call.args # None
          /\ ~HasRest(Resolved(call)[1].args[1])
          /\ Len(ArgsOf(call)) > Len(Resolved(call)[1].args[1])
          /\ DiagnosticsAt(call, "ArgumentCount") # {}

\* the schema item the i-th provided argument is aligned with: the i-th item,
\* or the rest item for the positions after the schema
ItemAt(items, i) ==
    IF i <= Len(items) THEN Some(items[i])
    ELSE IF HasRest(items) THEN Some(items[Len(items)])
    ELSE None

\* the argument is literal text only
IsLiteral(arg) == \A j \in 1..Len(arg.parts) : arg.parts[j].kind = "Text"

\* the literal text of the argument, trimmed
TrimmedText(arg) == trim(concat_contents(arg.parts))

\* the values of the item's enum: the inline one, or the named one of the
\* registry
EnumOf(item) ==
    IF item.enum_name # None THEN get_enum(Reg, item.enum_name[1]) ELSE item.arg_enum

\* the argument is skipped: its item is not required and it is empty
Skipped(item, arg) == item.required # Some(TRUE) /\ IsLiteral(arg) /\ TrimmedText(arg) = <<>>

\* the provided arguments of the call whose value is not in their item's enum
EnumMismatches(call) ==
    LET items == Resolved(call)[1].args[1]
    IN {i \in 1..Len(ArgsOf(call)) :
           /\ ItemAt(items, i) # None
           /\ ~Skipped(ItemAt(items, i)[1], ArgsOf(call)[i])
           /\ EnumOf(ItemAt(items, i)[1]) # None
           /\ IsLiteral(ArgsOf(call)[i])
           /\ TrimmedText(ArgsOf(call)[i]) \notin Range(EnumOf(ItemAt(items, i)[1])[1])}

\* C21: with enum validation on, each provided argument is aligned
\* with its schema item (the rest item for all trailing positions) and is
\* skipped only if the item is not required and the argument is empty;
\* otherwise, if the item has an inline enum or names an enum of the registry
\* and the argument is literal text, an EnumValue diagnostic is emitted iff
\* the trimmed text is not a value of the enum.
C21_EnumValues ==
    (Validated # None /\ config.validate_enums) =>
        \A call \in SchemaCalls :
            call.args # None =>
                Cardinality(DiagnosticsAt(call, "EnumValue"))
                    = Cardinality(EnumMismatches(call))

\* the kinds of the diagnostics a parse returned
Kinds == IF outcome = None THEN {}
         ELSE {outcome[1].errors[i].kind : i \in 1..Len(outcome[1].errors)}

\* C22: an UnknownFunction diagnostic is emitted only when function
\* validation is enabled and a registry is attached: a parse without a
\* registry (Parser::with_config) or with validate_functions off returns no
\* diagnostic of kind UnknownFunction.
C22_UnknownNeedsRegistry ==
    (outcome # None /\ (outcome[1].api = "parse_with_config" \/ ~config.validate_functions))
        => "UnknownFunction" \notin Kinds

\* the call's canonical name is no key of the registry
Unregistered(call) == get_exact(trie, <<"$">> \o str_chars(call.name)) = None

ValidationKinds == {"BracketUsage", "ArgumentCount", "EnumValue"}

\* C30: with function validation on and a registry attached, every call whose
\* canonical name is not an exact key of the registry, in any letter case,
\* gets an UnknownFunction diagnostic and is validated against no signature:
\* `$ss` is reported unknown when only `$s` is registered.
C30_UnknownUnlessExact ==
    (Validated # None /\ config.validate_functions) =>
        \A call \in Calls :
            Unregistered(call) =>
                /\ DiagnosticsAt(call, "UnknownFunction") # {}
                /\ \A kind \in ValidationKinds : DiagnosticsAt(call, kind) = {}

----------------------------------------------------------------------------
(* import_cache and concurrent users *)

\* import_cache has cleared the registry and has not yet re-entered the
\* write lock to repopulate it
ImportGap == pc[Importer] = "write"

\* the trie that holds exactly the cache's functions and their aliases
CacheTrie == add_functions(EmptyTrie, wcall[Importer][1].items)

\* C29: import_cache is atomic for concurrent users of the registry: no
\* lookup holds the read guard and no other thread holds the write guard
\* between the import's clear and its repopulation, so a lookup sees the
\* registry as it was before the import or as it is after it, and when the
\* repopulation ends the trie holds exactly the cache's functions and their
\* aliases.
C29_ImportAtomic ==
    [][/\ ImportGap' =>
            /\ lock'.readers = {}
            /\ lock'.writer = None
       /\ (pc[Importer] = "insert" /\ pc'[Importer] = "enums") => trie' = CacheTrie]_vars

----------------------------------------------------------------------------
(* The count of a FunctionTrie *)

\* the step inserts `key`: its lowercased form joins the occupied nodes and
\* the count grows by one exactly when that node was empty
InsertsKey(key) ==
    LET lk == to_lowercase(key)
    IN /\ Registered(trie') = Registered(trie) \cup {lk}
       /\ trie'.count = IF lk \in Registered(trie) THEN trie.count
                        ELSE trie.count + 1

\* the step clears the trie
Clears == Registered(trie') = {} /\ trie'.count = 0

\* C25: after any sequence of insert and clear, the trie's count is the
\* number of nodes holding a signature, which is the number of distinct
\* lowercased keys inserted since the last clear: inserting a key whose
\* lowercased form is occupied keeps the count, inserting any other key adds
\* one, and clear resets the count to 0.
C25_CountInvariant ==
    /\ trie.count = Cardinality(Registered(trie))
    /\ [][/\ trie'.count = Cardinality(Registered(trie'))
          /\ nrec' # nrec => \E key \in TrieKeys : InsertsKey(key)
          /\ nrec' = nrec => Clears]_vars

\* three inserts and no more than one occupied node, which holds the
\* signature inserted under the uppercase key
C25_Witness ==
    /\ nrec = MaxInserts
    /\ trie.count = 1
    /\ Registered(trie) = {<<"$", "s">>}
    /\ trie.value[<<"$", "s">>][1].name = <<"$", "S">>

----------------------------------------------------------------------------
(* Brackets and semicolons inside an argument list *)

\* the top-level calls of a parse of a host source that have an argument list
ListCalls ==
    {Body[k] : k \in {m \in 1..Len(Body) :
                        Body[m].kind = "FunctionCall" /\ Body[m].args # None}}

\* the text between the call's `[` and its matching `]`
Interior(call) ==
    str_slice(source, call.args_span[1].start + 1, call.args_span[1].end - 1)

\* reading backwards from the `[` at idx over identifier characters and then
\* over modifier atoms, the cursor reaches a `$` that is_escaped calls
\* unescaped
FunctionAttached(content, idx) ==
    /\ byte_get(content, idx) = Some(LBRACKET)
    /\ LET r == back_over_modifiers(content, back_over_identifier(content, idx))
       IN /\ r.ok
          /\ r.i > 0
          /\ B(content, r.i - 1) = DOLLAR
          /\ ~is_escaped(content, r.i - 1)

two_backslash_call == <<BACKSLASH, BACKSLASH, DOLLAR, 97, LBRACKET>>

\* C24: the function-attached-bracket predicate used when splitting arguments
\* agrees with the escape predicate: at every position of every argument
\* list it holds exactly when the `[` there is reached backwards from a `$`
\* with an even number of backslashes right before it; after two backslashes
\* and `$a` the bracket is function-attached.
C24_FunctionBracket ==
    /\ \A call \in ListCalls :
          \A idx \in 0..(Len(Interior(call)) - 1) :
              is_function_bracket(Interior(call), idx)
                  <=> FunctionAttached(Interior(call), idx)
    /\ Parsed # None => is_function_bracket(two_backslash_call, 4)

\* the number of `;` that split the list under the rules of the argument
\* list, with depth opened by the brackets FunctionAttached accepts
RECURSIVE SplitCount(_, _, _)
SplitCount(content, i, depth) ==
    IF i >= Len(content) THEN 0
    ELSE IF /\ B(content, i) = DOLLAR
            /\ depth = 0
            /\ find_escape_function_end(content, i) # None
    THEN SplitCount(content, find_escape_function_end(content, i)[1] + 1, depth)
    ELSE IF B(content, i) = BACKSLASH
    THEN IF /\ i + 1 < Len(content)
            /\ B(content, i + 1) \in {BACKTICK, DOLLAR, LBRACKET, RBRACKET,
                                      SEMICOLON, BACKSLASH}
         THEN SplitCount(content, i + 2, depth)
         ELSE SplitCount(content, i + 1, depth)
    ELSE IF B(content, i) = LBRACKET /\ FunctionAttached(content, i)
    THEN SplitCount(content, i + 1, depth + 1)
    ELSE IF B(content, i) = RBRACKET /\ depth > 0 /\ ~is_escaped(content, i)
    THEN SplitCount(content, i + 1, depth - 1)
    ELSE IF B(content, i) = SEMICOLON /\ depth = 0
    THEN 1 + SplitCount(content, i + 1, depth)
    ELSE SplitCount(content, i + 1, depth)

\* the text ends with a `;` that no backslash escapes
TrailingSemicolon(content) ==
    /\ B(content, Len(content) - 1) = SEMICOLON
    /\ ~is_escaped(content, Len(content) - 1)

\* C26: in a matched argument list with a non-empty interior a `;` splits
\* only at depth zero, so a `;` inside the brackets of a nested
\* function-attached call does not split the enclosing list, and the number
\* of arguments is one plus the number of unescaped depth-zero `;`:
\* `$func[; ;last]` has 3 arguments and a trailing `;` gives a trailing empty
\* argument.
C26_ArgumentSplitting ==
    /\ \A call \in ListCalls :
          Interior(call) # <<>> =>
              /\ Len(ArgsOf(call)) = 1 + SplitCount(Interior(call), 0, 0)
              /\ TrailingSemicolon(Interior(call)) =>
                     IsEmptyArgument(ArgsOf(call)[Len(ArgsOf(call))])
    /\ (Parsed # None /\ source = empty_and_whitespace_input) =>
          Len(Body) = 1 /\ Len(ArgsOf(Body[1])) = 3

----------------------------------------------------------------------------
(* The name span of a call *)

\* source[span], when the span lies in the source
SourceAt(span) ==
    IF 0 <= span.start /\ span.start <= span.end /\ span.end <= Len(source)
    THEN Some(str_slice(source, span.start, span.end))
    ELSE None

\* C27: for every FunctionCall the parser produces, with or without
\* modifiers, at the top level or inside arguments, source[name_span] is the
\* node's name.
C27_NameSpan ==
    \A call \in Calls : SourceAt(call.name_span) = Some(call.name)

----------------------------------------------------------------------------
(* The nodes of a block cover its content *)

IsAscii(bytes) == \A k \in 1..Len(bytes) : bytes[k] < 128

\* where the first block's content ends, when the source opens with a closed
\* block
FirstClose ==
    IF Len(source) >= 7 /\ SubSeq(source, 1, 7) = CODE_OPEN
    THEN scan_code_block_end(with_config(source, config), 7)
    ELSE None

\* the content the inner pass ran on: the whole source of a script, the
\* text between the backticks of the first block of a host source
Content ==
    IF outcome = None THEN None
    ELSE IF outcome[1].api = "parse_forge_script_with_validation"
    THEN Some(Span(0, Len(source)))
    ELSE IF FirstClose # None THEN Some(Span(7, FirstClose[1]))
    ELSE None

\* the top-level nodes the inner pass produced for that content, in order
ContentNodes ==
    LET body == outcome[1].ast.body
        inside(node) == /\ Content[1].start <= node.span.start
                        /\ node.span.start < Content[1].end
    IN SelectSeq(body, inside)

\* the spans of the nodes are contiguous from lo to hi
Tiles(nodes, lo, hi) ==
    IF nodes = <<>> THEN lo = hi
    ELSE /\ nodes[1].span.start = lo
         /\ \A k \in 1..(Len(nodes) - 1) : nodes[k + 1].span.start = nodes[k].span.end
         /\ nodes[Len(nodes)].span.end = hi

\* C28: no byte of a block's content is dropped: for every ASCII content the
\* top-level nodes of the inner pass have contiguous spans that tile it, the
\* first starting at the content start, each next one where the previous one
\* ended, the last ending at the content end; the modifier characters after
\* a `$` with an empty name are in some node as well.
C28_ContentTiled ==
    (Content # None /\ IsAscii(source)) =>
        Tiles(ContentNodes, Content[1].start, Content[1].end)

----------------------------------------------------------------------------
(* Termination of a parse *)

\* an iteration of either loop leaves the cursor further on
Advances ==
    (run.phase \in {"blocks", "nodes"} /\ run'.phase = run.phase) =>
        run'.self.pos > run.self.pos

DiagnosticKinds ==
    {"Syntax", "UnknownFunction", "BracketUsage", "ArgumentCount", "EnumValue"}

\* parse has returned one Program node and a list of diagnostics
ReturnedProgram ==
    /\ outcome # None
    /\ outcome[1].ast.kind = "Program"
    /\ \A k \in 1..Len(outcome[1].errors) : outcome[1].errors[k].kind \in DiagnosticKinds

\* C23: parsing terminates: for every source and every configuration, each
\* iteration of the block loop and of the node loop moves the cursor
\* strictly forward, also on unmatched brackets, braces and backticks, a
\* lone `$` and a backslash at the end of the input, and parse reaches its
\* end and returns one Program node and a list of diagnostics.
C23_Terminates ==
    /\ [][Advances]_vars
    /\ <>ReturnedProgram

lone_and_unmatched_input == <<DOLLAR, 97, LBRACKET, DOLLAR, BACKSLASH>>

\* the script `$a[$\` has been parsed to its end, node by node: a call with
\* an unmatched bracket, a lone `$` and a backslash at the end of the input
C23_Witness ==
    /\ source = lone_and_unmatched_input
    /\ ReturnedProgram
    /\ run.phase = "done"
    /\ Len(outcome[1].ast.body) = 3
    /\ outcome[1].ast.body[1].kind = "FunctionCall"
    /\ outcome[1].ast.body[1].args = None

====
